---- MODULE Spec2Model ----
(***************************************************************************)
(* The landmark adjustment engine of src/src/app.py: the manual overrides  *)
(* (manual_adjustments), the undo stack (adjustment_history), the redo     *)
(* stack (adjustment_redo_stack) and the image-change detection, driven by *)
(* the handlers of the Streamlit script (upload, canvas result, precision  *)
(* adjustment, reset button, undo button).                                 *)
(*                                                                         *)
(* Numbers.  A coordinate is a fixed-point integer counting units of       *)
(* 10^-COORDINATE_PRECISION pixel, the precision every conversion of       *)
(* app.py rounds to.  Python's float error below that precision is not     *)
(* modelled.                                                               *)
(***************************************************************************)
EXTENDS Integers, Sequences, FiniteSets, TLC

\* AppConfig, src/src/app.py:30-44, and the canvas constants, app.py:26-27.
MAX_HISTORY_SIZE == 20
COORDINATE_PRECISION == 6
CANVAS_WIDTH == 600
CANVAS_HEIGHT == 800

RECURSIVE Pow10(_)
Pow10(n) == IF n = 0 THEN 1 ELSE 10 * Pow10(n - 1)

\* One pixel in coordinate units.
Px == Pow10(COORDINATE_PRECISION)

\* AppConfig.DEFAULT_MOVEMENT_THRESHOLD = 5.0 pixels.
DEFAULT_MOVEMENT_THRESHOLD == 5 * Px

\* Python's None.
None == "None"

Abs(v) == IF v < 0 THEN -v ELSE v

(***************************************************************************)
(* Bounds of the model.                                                    *)
(***************************************************************************)
\* Handler invocations explored by Spec and SpecApi.
MaxSteps == 6

\* The longest landmark list and the longest index list handed to
\* calculate_group_center.
MaxLandmarks == 2
MaxIndices == 3

(***************************************************************************)
(* The environment: uploaded files, the detector's answer for each, and    *)
(* the key points drawn on the canvas.                                     *)
(***************************************************************************)
\* The key points of the canvas: two of the six names of base_config.
key_point_names == {"nose_tip", "nose_bridge"}

\* base_config[...]['radius'], app.py:831-838.
base_radius(name) == IF name = "nose_tip" THEN 12 * Px ELSE 8 * Px

\* The contents a user may upload.
FileBytes == {"bytesA", "bytesB", "bytesC", "bytesD"}

\* hashlib.md5(image_bytes).hexdigest(): one digest per content (no collisions
\* among the contents of the model).
md5(image_bytes) ==
    CASE image_bytes = "bytesA" -> "d41a"
      [] image_bytes = "bytesB" -> "9e10"
      [] image_bytes = "bytesC" -> "7c2f"
      [] image_bytes = "bytesD" -> "03b5"

\* cv_image.shape[:2] of each content, as <<height, width>>.
image_shape(image_bytes) ==
    CASE image_bytes = "bytesA" -> <<1600, 1200>>
      [] image_bytes = "bytesB" -> <<900, 1200>>
      [] image_bytes = "bytesC" -> <<1000, 500>>
      [] image_bytes = "bytesD" -> <<800, 600>>

\* len(results.multi_face_landmarks) of the detector for each content.
faces_found(image_bytes) ==
    CASE image_bytes = "bytesA" -> 1
      [] image_bytes = "bytesB" -> 1
      [] image_bytes = "bytesC" -> 0
      [] image_bytes = "bytesD" -> 2

\* FaceDetector.detect_face_landmarks, app.py:322-345: the pair
\* (landmarks, error_message); the landmark set is named by its image.
detect_face_landmarks(image_bytes) ==
    IF faces_found(image_bytes) = 0
    THEN [landmarks |-> None, error_message |-> "no_face"]
    ELSE IF faces_found(image_bytes) > 1
         THEN [landmarks |-> None, error_message |-> "multiple_faces"]
         ELSE [landmarks |-> image_bytes, error_message |-> None]

\* detector.get_enhanced_landmarks: the base position of each key point, in
\* image pixels (the detector's output is an input of the engine).
enhanced_landmarks(image_bytes) ==
    [name \in key_point_names |->
        IF name = "nose_tip"
        THEN [x |-> 400 * Px, y |-> 500 * Px]
        ELSE [x |-> 400 * Px, y |-> 300 * Px]]

(***************************************************************************)
(* Coordinate conversion, CoordinateConverter of app.py.                   *)
(***************************************************************************)
\* round(n / d) for n >= 0, d > 0, ties to the even integer as Python's round.
RoundDivNat(n, d) ==
    LET q == n \div d
        r == n % d
    IN  IF 2 * r < d THEN q
        ELSE IF 2 * r > d THEN q + 1
        ELSE IF q % 2 = 0 THEN q ELSE q + 1

\* round(v * num / den, COORDINATE_PRECISION) on coordinate units; the product
\* is split so that no intermediate value exceeds the result's magnitude.
ScaleRound(v, num, den) ==
    LET a == Abs(v)
        q == a \div den
        r == a % den
        m == q * num + RoundDivNat(r * num, den)
    IN  IF v < 0 THEN -m ELSE m

\* calculate_canvas_dimensions, app.py:521-544: <<canvas_w, canvas_h>>.
Min(a, b) == IF a < b THEN a ELSE b

calculate_canvas_dimensions(shape) ==
    LET original_h == shape[1]
        original_w == shape[2]
    IN  IF original_w > original_h
        THEN <<CANVAS_WIDTH,
               Min((original_h * CANVAS_WIDTH) \div original_w, CANVAS_HEIGHT)>>
        ELSE LET canvas_h == Min(CANVAS_HEIGHT,
                                 (original_h * CANVAS_WIDTH) \div original_w)
             IN  <<(original_w * canvas_h) \div original_h, canvas_h>>

\* The exception Python raises on a division by zero, as the outcome of the
\* call that raised it.
ZeroDivisionError == [raised |-> "ZeroDivisionError"]

\* CoordinateConverter.scale_to_canvas, app.py:55-81: canvas_w / real_w and
\* canvas_h / real_h raise when the divisor is 0.
scale_to_canvas(real_coords, real_size, canvas_size) ==
    IF real_size[1] = 0 \/ real_size[2] = 0
    THEN ZeroDivisionError
    ELSE [x |-> ScaleRound(real_coords.x, canvas_size[1], real_size[1]),
          y |-> ScaleRound(real_coords.y, canvas_size[2], real_size[2])]

\* CoordinateConverter.scale_to_real, app.py:83-109.
scale_to_real(canvas_coords, real_size, canvas_size) ==
    IF canvas_size[1] = 0 \/ canvas_size[2] = 0
    THEN ZeroDivisionError
    ELSE [x |-> ScaleRound(canvas_coords.x, real_size[1], canvas_size[1]),
          y |-> ScaleRound(canvas_coords.y, real_size[2], canvas_size[2])]

\* CoordinateConverter.verify_conversion_integrity, app.py:111-145: whether
\* the round trip of original_coords stays within 1.0 on each axis; an
\* exception of the round trip is caught and answered with False.
verify_conversion_integrity(original_coords, real_size, canvas_size) ==
    LET canvas_coords == scale_to_canvas(original_coords, real_size, canvas_size)
        restored_coords == scale_to_real(canvas_coords, real_size, canvas_size)
    IN  IF canvas_coords = ZeroDivisionError
        THEN FALSE
        ELSE IF restored_coords = ZeroDivisionError
        THEN FALSE
        ELSE /\ Abs(original_coords.x - restored_coords.x) <= Px
             /\ Abs(original_coords.y - restored_coords.y) <= Px

(***************************************************************************)
(* LandmarkAnalyzer of app.py.  The detector's landmarks are a record      *)
(* [length, landmark]: len(landmarks.landmark) and the normalized point at *)
(* each index the call reads; a normalized coordinate counts hundredths.   *)
(***************************************************************************)
\* The names of LANDMARK_GROUPS, app.py:37-44 and app_final.py:30-67.
LANDMARK_GROUPS ==
    {"left_eye_center", "right_eye_center", "nose_tip", "nose_bridge",
     "left_nostril", "right_nostril"}

\* Python's None where the value may be an object (a record of the model).
NoneObject == [none |-> TRUE]

\* point.x and point.y are multiples of 1 / NormUnit in the model.
NormUnit == 100

\* AppConfig.LANDMARK_GROUPS[point_name], app.py:37-44.
group_indices_of(point_name) ==
    CASE point_name = "left_eye_center" -> <<159, 158, 157, 173>>
      [] point_name = "right_eye_center" -> <<386, 385, 384, 398>>
      [] point_name = "nose_tip" -> <<1, 2>>
      [] point_name = "nose_bridge" -> <<6, 9>>
      [] point_name = "left_nostril" -> <<131, 134, 126>>
      [] point_name = "right_nostril" -> <<102, 49, 48>>

RECURSIVE Sum(_)
Sum(s) == IF s = <<>> THEN 0 ELSE s[1] + Sum(Tail(s))

\* The loop of calculate_group_center, app.py:171-177: the pixel positions
\* (point.x * w, point.y * h) of the indices below len(landmarks.landmark), in
\* the order of group_indices.
RECURSIVE valid_points(_, _, _, _)
valid_points(landmarks, group_indices, i, shape) ==
    IF i > Len(group_indices)
    THEN <<>>
    ELSE LET idx == group_indices[i]
             rest == valid_points(landmarks, group_indices, i + 1, shape)
         IN  IF idx < landmarks.length
             THEN <<[x |-> landmarks.landmark[idx].x * shape[2]
                               * (Px \div NormUnit),
                     y |-> landmarks.landmark[idx].y * shape[1]
                               * (Px \div NormUnit)]>> \o rest
             ELSE rest

\* The centre of a non-empty list of pixel positions, app.py:183-186.
mean_point(points) ==
    [x |-> RoundDivNat(Sum([i \in DOMAIN points |-> points[i].x]), Len(points)),
     y |-> RoundDivNat(Sum([i \in DOMAIN points |-> points[i].y]), Len(points))]

\* Faulty variants of calculate_group_center: one that answers the origin when
\* no index is in range, one that divides by the number of indices supplied.
center_or_origin(landmarks, group_indices, shape) ==
    IF landmarks = NoneObject \/ group_indices = <<>>
    THEN NoneObject
    ELSE LET points == valid_points(landmarks, group_indices, 1, shape)
         IN  IF points = <<>> THEN [x |-> 0, y |-> 0] ELSE mean_point(points)

center_over_all_indices(landmarks, group_indices, shape) ==
    IF landmarks = NoneObject \/ group_indices = <<>>
    THEN NoneObject
    ELSE LET points == valid_points(landmarks, group_indices, 1, shape)
         IN  IF points = <<>>
             THEN NoneObject
             ELSE [x |-> RoundDivNat(Sum([i \in DOMAIN points |-> points[i].x]),
                                     Len(group_indices)),
                   y |-> RoundDivNat(Sum([i \in DOMAIN points |-> points[i].y]),
                                     Len(group_indices))]

\* LandmarkAnalyzer.calculate_group_center, app.py:152-186.
calculate_group_center(landmarks, group_indices, shape) ==
    IF landmarks = NoneObject \/ group_indices = <<>>
    THEN NoneObject
    ELSE LET points == valid_points(landmarks, group_indices, 1, shape)
         IN  IF points = <<>> THEN NoneObject ELSE mean_point(points)

\* FaceDetector._get_enhanced_landmarks_internal, app.py:362-383.
get_enhanced_landmarks_internal(landmarks, shape) ==
    LET center(point_name) ==
            calculate_group_center(landmarks, group_indices_of(point_name),
                                   shape)
    IN  [point_name \in {name \in LANDMARK_GROUPS : center(name) # NoneObject} |->
            center(point_name)]

\* Distances of assess_landmark_confidence count hundredths of a pixel,
\* variances their squares, and a confidence counts ten-thousandths (the
\* squares of finer units overflow the model's integers).
DistUnit == Px \div 100
VarUnit == 100 * 100
ConfUnit == 100 * 100

\* math.sqrt on non-negative integers, rounded down.
RECURSIVE sqrt_between(_, _, _)
sqrt_between(n, low, high) ==
    IF low >= high
    THEN low
    ELSE LET mid == (low + high + 1) \div 2
         IN  IF mid * mid <= n
             THEN sqrt_between(n, mid, high)
             ELSE sqrt_between(n, low, mid - 1)

sqrt(n) == sqrt_between(n, 0, 46340)

\* math.sqrt((point['x'] - center['x'])**2 + (point['y'] - center['y'])**2),
\* app.py:222.
distance(point, center) ==
    LET dx == RoundDivNat(Abs(point.x - center.x), DistUnit)
        dy == RoundDivNat(Abs(point.y - center.y), DistUnit)
    IN  sqrt(dx * dx + dy * dy)

\* A faulty variant of np.var: the mean of the squares, the mean not removed.
np_var_about_zero(distances) ==
    RoundDivNat(Sum([i \in DOMAIN distances |-> distances[i] * distances[i]]),
                Len(distances))

\* np.var(distances): the mean of the squared deviations from the mean.
np_var(distances) ==
    LET n == Len(distances)
        squares == [i \in DOMAIN distances |-> distances[i] * distances[i]]
    IN  RoundDivNat(n * Sum(squares) - Sum(distances) * Sum(distances), n * n)

\* A faulty variant of the confidence: it grows with the variance.
confidence_growing(variance) ==
    LET raw == ConfUnit - RoundDivNat(ConfUnit * 10 * VarUnit,
                                      10 * VarUnit + variance)
    IN  IF raw < 0 THEN 0 ELSE IF raw > ConfUnit THEN ConfUnit ELSE raw

\* max(0.0, min(1.0, 1.0 / (1.0 + variance / 10.0))), app.py:227.
confidence_of(variance) ==
    LET raw == RoundDivNat(ConfUnit * 10 * VarUnit, 10 * VarUnit + variance)
    IN  IF raw < 0 THEN 0 ELSE IF raw > ConfUnit THEN ConfUnit ELSE raw

\* A faulty variant of the test len(points) < 2: one point is enough.
too_few_when_empty(points) == Len(points) < 1

\* len(points) < 2, app.py:211.
too_few_points(points) == Len(points) < 2

\* A faulty variant of the tier: the boundary values fall in the upper tier.
tier_boundary_in_upper(confidence) ==
    IF confidence >= (8 * ConfUnit) \div 10
    THEN [status |-> "high", color |-> "#00FF00"]
    ELSE IF confidence >= (5 * ConfUnit) \div 10
    THEN [status |-> "medium", color |-> "#FFAA00"]
    ELSE [status |-> "low", color |-> "#FF0000"]

\* The status and color of a confidence, app.py:236-242 and
\* app_final.py:179-185.
tier_of(confidence) ==
    IF confidence > (8 * ConfUnit) \div 10
    THEN [status |-> "high", color |-> "#00FF00"]
    ELSE IF confidence > (5 * ConfUnit) \div 10
    THEN [status |-> "medium", color |-> "#FFAA00"]
    ELSE [status |-> "low", color |-> "#FF0000"]

\* LandmarkAnalyzer.assess_landmark_confidence, app.py:188-250.
assess_landmark_confidence(landmarks, point_name, shape) ==
    IF point_name \notin LANDMARK_GROUPS
    THEN [confidence |-> 0, status |-> "unknown", color |-> "#808080"]
    ELSE LET group_indices == group_indices_of(point_name)
             points == valid_points(landmarks, group_indices, 1, shape)
             center == calculate_group_center(landmarks, group_indices, shape)
             distances == [i \in DOMAIN points |-> distance(points[i], center)]
             variance == np_var(distances)
             confidence == confidence_of(variance)
         IN  IF too_few_points(points)
             THEN [confidence |-> 0, status |-> "insufficient_points",
                   color |-> "#FF0000"]
             ELSE IF center = NoneObject
             THEN [confidence |-> 0, status |-> "calculation_failed",
                   color |-> "#FF0000"]
             ELSE [confidence |-> confidence,
                   status |-> tier_of(confidence).status,
                   color |-> tier_of(confidence).color,
                   variance |-> variance,
                   point_count |-> Len(points)]

\* The lengths of validate_anatomical_constraints count hundredths of a pixel.
CentiPx == Px \div 100

\* abs(math.degrees(math.atan2(dx, dy))) > degrees for degrees = 30,
\* app.py:281-282 and 293: the direction (dx, dy) is more than 30 degrees from
\* the direction (0, 1) unless dy > 0 and |dx| / dy <= tan 30 = 1 / sqrt 3;
\* atan2(0, 0) is 0.
angle_exceeds_30_degrees(dx, dy) ==
    ~ \/ (dx = 0 /\ dy = 0)
      \/ (dy > 0 /\ 3 * dx * dx <= dy * dy)

\* A faulty variant of the rules: the boundary values are flagged.
constraint_warnings_inclusive(nose_dx, nose_dy, nostril_dx, nostril_dy) ==
    LET nose_length_squared == nose_dx * nose_dx + nose_dy * nose_dy
        nostril_distance_squared ==
            nostril_dx * nostril_dx + nostril_dy * nostril_dy
    IN  (IF nose_length_squared <= (10 * 100) * (10 * 100)
         THEN <<"nose_too_short">>
         ELSE IF nose_length_squared >= (200 * 100) * (200 * 100)
         THEN <<"nose_too_long">> ELSE <<>>)
        \o (IF nostril_distance_squared <= (5 * 100) * (5 * 100)
            THEN <<"nostrils_too_close">>
            ELSE IF nostril_distance_squared >= (100 * 100) * (100 * 100)
            THEN <<"nostrils_too_far">> ELSE <<>>)
        \o (IF angle_exceeds_30_degrees(nose_dx, nose_dy)
            THEN <<"nose_angle_unnatural">> ELSE <<>>)

\* The rules of validate_anatomical_constraints, app.py:284-295 and
\* app_final.py:236-247, on the differences nose_tip - nose_bridge and
\* left_nostril - right_nostril in hundredths of a pixel.  A length is
\* compared by its square (math.sqrt is monotone and exact on 10, 200, 5 and
\* 100); a warning is named in place of its text.
constraint_warnings(nose_dx, nose_dy, nostril_dx, nostril_dy) ==
    LET nose_length_squared == nose_dx * nose_dx + nose_dy * nose_dy
        nostril_distance_squared ==
            nostril_dx * nostril_dx + nostril_dy * nostril_dy
    IN  (IF nose_length_squared < (10 * 100) * (10 * 100)
         THEN <<"nose_too_short">>
         ELSE IF nose_length_squared > (200 * 100) * (200 * 100)
         THEN <<"nose_too_long">> ELSE <<>>)
        \o (IF nostril_distance_squared < (5 * 100) * (5 * 100)
            THEN <<"nostrils_too_close">>
            ELSE IF nostril_distance_squared > (100 * 100) * (100 * 100)
            THEN <<"nostrils_too_far">> ELSE <<>>)
        \o (IF angle_exceeds_30_degrees(nose_dx, nose_dy)
            THEN <<"nose_angle_unnatural">> ELSE <<>>)

\* The metrics of validate_anatomical_constraints: the two lengths in
\* hundredths of a pixel, rounded down, and the angle kept as the direction
\* (dx, dy) it is the angle of.
constraint_metrics(nose_dx, nose_dy, nostril_dx, nostril_dy) ==
    [nose_length |-> sqrt(nose_dx * nose_dx + nose_dy * nose_dy),
     nostril_distance |->
         sqrt(nostril_dx * nostril_dx + nostril_dy * nostril_dy),
     nose_angle_degrees |-> [dx |-> nose_dx, dy |-> nose_dy]]

\* validate_anatomical_constraints on four points whose coordinates count
\* `unit` to the hundredth of a pixel, app.py:252-303 and app_final.py:211-256.
validate_points(nose_tip, nose_bridge, left_nostril, right_nostril, unit) ==
    LET nose_dx == (nose_tip.x - nose_bridge.x) \div unit
        nose_dy == (nose_tip.y - nose_bridge.y) \div unit
        nostril_dx == (left_nostril.x - right_nostril.x) \div unit
        nostril_dy == (left_nostril.y - right_nostril.y) \div unit
        warnings == constraint_warnings(nose_dx, nose_dy, nostril_dx, nostril_dy)
    IN  [is_valid |-> Len(warnings) = 0,
         warnings |-> warnings,
         metrics |-> constraint_metrics(nose_dx, nose_dy, nostril_dx,
                                        nostril_dy)]

\* required_points, app.py:1036 and app_final.py:201.
required_points == <<"nose_tip", "nose_bridge", "left_nostril", "right_nostril">>

\* all(point in adjustments for point in required_points).
all_required_points(adjustments) ==
    \A i \in DOMAIN required_points : required_points[i] \in DOMAIN adjustments

\* LandmarkAnalyzer.validate_anatomical_constraints, app.py:252-303.
validate_anatomical_constraints(nose_tip, nose_bridge, left_nostril, right_nostril) ==
    validate_points(nose_tip, nose_bridge, left_nostril, right_nostril, CentiPx)

\* validate_anatomical_constraints_ui, app.py:1031-1060: the result it
\* displays, or None when it returns before validating.
validate_anatomical_constraints_ui(adjustments) ==
    IF ~all_required_points(adjustments)
    THEN NoneObject
    ELSE validate_anatomical_constraints(adjustments["nose_tip"],
                                         adjustments["nose_bridge"],
                                         adjustments["left_nostril"],
                                         adjustments["right_nostril"])

(***************************************************************************)
(* State.                                                                  *)
(***************************************************************************)
VARIABLES
    manual_adjustments,     \* st.session_state.manual_adjustments: name -> point
    adjustment_history,     \* st.session_state.adjustment_history (undo stack)
    adjustment_redo_stack,  \* st.session_state.adjustment_redo_stack
    movement_threshold,     \* st.session_state.movement_threshold
    current_image_hash,     \* st.session_state.current_image_hash
    previous_image_hash,    \* st.session_state.previous_image_hash
    uploaded_file,          \* the file uploader's content, or None
    ret,                    \* what the last called function returned
    lastOp,                 \* history variable: the last operation
    pre,                    \* history variable: the state it started from
    pre_edit_log,           \* history variable: see below
    cycles,                 \* history variable: see below
    steps,                  \* handler invocations so far
    canvas_result,          \* canvas_result.json_data["objects"] last read, or None
    final_heap,             \* app_final.py: the dict objects, by reference
    final_manual_adjustments, \* app_final.py: st.session_state.manual_adjustments
    final_history,          \* app_final.py: st.session_state.history
    final_landmarks,        \* app_final.py: st.session_state.landmarks
    final_pre,              \* history variable: app_final.py's state before lastOp
    args                    \* the analyzer function called and its arguments

\* The session of app.py and the history variables about it.
app_vars == <<manual_adjustments, adjustment_history, adjustment_redo_stack,
              current_image_hash, previous_image_hash, pre, pre_edit_log, cycles>>

\* The session of app_final.py and the history variable about it.
final_vars == <<final_heap, final_manual_adjustments, final_history,
                final_landmarks, final_pre>>

vars == <<manual_adjustments, adjustment_history, adjustment_redo_stack,
          movement_threshold, current_image_hash, previous_image_hash,
          uploaded_file, ret, lastOp, pre, pre_edit_log, cycles, steps,
          canvas_result, final_heap, final_manual_adjustments, final_history,
          final_landmarks, final_pre, args>>

\* What the history variable pre records of the state an operation started
\* from: the session fields, the operation that led to that state (op), what
\* it returned (ret) and the overrides it had started from (before).
Snapshot == [manual |-> manual_adjustments,
             history |-> adjustment_history,
             redo |-> adjustment_redo_stack,
             previous_hash |-> previous_image_hash,
             op |-> lastOp,
             ret |-> ret,
             before |-> pre.manual]

Front(s) == SubSeq(s, 1, Len(s) - 1)
Tail1(s) == SubSeq(s, 2, Len(s))
Last(s) == s[Len(s)]

\* The empty dict {}.
EmptyDict == [name \in {} |-> None]

\* d[key] = value on a dict.
DictSet(d, key, value) ==
    [name \in DOMAIN d \cup {key} |-> IF name = key THEN value ELSE d[name]]

\* initialize_session_state, app.py:546-582 and app_final.py:70-85: the two
\* sessions before the first interaction.
NewSession ==
    /\ manual_adjustments = EmptyDict
    /\ adjustment_history = <<>>
    /\ adjustment_redo_stack = <<>>
    /\ movement_threshold = DEFAULT_MOVEMENT_THRESHOLD
    /\ current_image_hash = None
    /\ previous_image_hash = None
    /\ uploaded_file = None
    /\ ret = None
    /\ lastOp = "init"
    /\ pre = [manual |-> EmptyDict, history |-> <<>>, redo |-> <<>>,
              previous_hash |-> None, op |-> "init", ret |-> None,
              before |-> EmptyDict]
    /\ pre_edit_log = <<>>
    /\ cycles = 0
    /\ steps = 0
    /\ canvas_result = None
    /\ final_heap = [ref \in {0} |-> EmptyDict]
    /\ final_manual_adjustments = 0
    /\ final_history = <<>>
    /\ final_landmarks = None
    /\ final_pre = [heap |-> [ref \in {0} |-> EmptyDict], manual |-> 0,
                    history |-> <<>>, landmarks |-> None, uploaded |-> None]

\* The front ends start with a new session; no analyzer function is called.
Init == NewSession /\ args = NoneObject

(***************************************************************************)
(* The functions of app.py, as functions of the session fields they read.  *)
(***************************************************************************)
\* Faulty variants of save_adjustment_to_history: one that never evicts, one
\* that evicts the newest entry (pop() for pop(0)), one that does not compare
\* with the top of the stack.
save_without_eviction(manual, history, redo) ==
    IF Len(history) > 0 /\ Last(history) = manual
    THEN [history |-> history, redo |-> redo]
    ELSE [history |-> Append(history, manual), redo |-> <<>>]

save_evicting_newest(manual, history, redo) ==
    IF Len(history) > 0 /\ Last(history) = manual
    THEN [history |-> history, redo |-> redo]
    ELSE [history |-> Append(IF Len(history) >= MAX_HISTORY_SIZE
                             THEN Front(history) ELSE history, manual),
          redo |-> <<>>]

save_without_dedup(manual, history, redo) ==
    [history |-> Append(IF Len(history) >= MAX_HISTORY_SIZE
                        THEN Tail1(history) ELSE history, manual),
     redo |-> <<>>]

\* save_adjustment_to_history, app.py:1011-1029: the two stacks afterwards.
save_adjustment_to_history(manual, history, redo) ==
    IF Len(history) > 0 /\ Last(history) = manual
    THEN [history |-> history, redo |-> redo]
    ELSE [history |-> Append(IF Len(history) >= MAX_HISTORY_SIZE
                             THEN Tail1(history) ELSE history, manual),
          redo |-> <<>>]

\* Faulty variants of undo_last_adjustment: one that restores the popped state
\* without saving the current one for redo, one that saves the current state
\* for redo before it looks at the undo stack.
undo_without_redo_push(manual, history, redo) ==
    IF Len(history) = 0
    THEN [manual |-> manual, history |-> history, redo |-> redo, ret |-> FALSE]
    ELSE [manual |-> Last(history), history |-> Front(history), redo |-> redo,
          ret |-> TRUE]

undo_pushing_before_guard(manual, history, redo) ==
    LET pushed == Append(redo, manual)
        kept == IF Len(pushed) > MAX_HISTORY_SIZE THEN Tail1(pushed) ELSE pushed
    IN  IF Len(history) = 0
        THEN [manual |-> manual, history |-> history, redo |-> kept,
              ret |-> FALSE]
        ELSE [manual |-> Last(history), history |-> Front(history),
              redo |-> kept, ret |-> TRUE]

\* undo_last_adjustment, app.py:768-790: the session fields and the return value.
undo_last_adjustment(manual, history, redo) ==
    IF Len(history) = 0
    THEN [manual |-> manual, history |-> history, redo |-> redo, ret |-> FALSE]
    ELSE LET pushed == Append(redo, manual)
         IN  [manual |-> Last(history),
              history |-> Front(history),
              redo |-> IF Len(pushed) > MAX_HISTORY_SIZE
                       THEN Tail1(pushed) ELSE pushed,
              ret |-> TRUE]

\* A faulty variant of detect_image_change: the redo stack survives the change.
detect_image_change_keeping_redo(image_bytes, manual, history, redo, previous_hash) ==
    LET current_hash == md5(image_bytes)
    IN  IF previous_hash # None /\ previous_hash # current_hash
        THEN [manual |-> EmptyDict, history |-> <<>>, redo |-> redo,
              current_hash |-> current_hash, previous_hash |-> current_hash,
              ret |-> TRUE]
        ELSE [manual |-> manual, history |-> history, redo |-> redo,
              current_hash |-> current_hash, previous_hash |-> current_hash,
              ret |-> FALSE]

\* detect_image_change, app.py:584-611.
detect_image_change(image_bytes, manual, history, redo, previous_hash) ==
    LET current_hash == md5(image_bytes)
    IN  IF previous_hash # None /\ previous_hash # current_hash
        THEN [manual |-> EmptyDict, history |-> <<>>, redo |-> <<>>,
              current_hash |-> current_hash, previous_hash |-> current_hash,
              ret |-> TRUE]
        ELSE [manual |-> manual, history |-> history, redo |-> redo,
              current_hash |-> current_hash, previous_hash |-> current_hash,
              ret |-> FALSE]

\* A faulty variant of the reset: the redo stack is left as it is.
reset_keeping_redo(manual, history, redo) ==
    [manual |-> EmptyDict, history |-> <<>>, redo |-> redo]

\* The reset button of create_enhanced_landmark_adjustment_controls,
\* app.py:724-729.
reset_all(manual, history, redo) ==
    [manual |-> EmptyDict, history |-> <<>>, redo |-> <<>>]


(***************************************************************************)
(* The canvas: the circles app.py draws and the result it reads back.      *)
(***************************************************************************)
\* (width, height) of the image and of its canvas, app.py:810-811.
real_size_of(image_bytes) ==
    <<image_shape(image_bytes)[2], image_shape(image_bytes)[1]>>

canvas_size_of(image_bytes) == calculate_canvas_dimensions(image_shape(image_bytes))

\* initial_objects of create_enhanced_interactive_canvas, app.py:855-883: one
\* circle per key point, at the override when there is one, else at the base
\* position.
initial_objects(image_bytes, manual) ==
    [name \in key_point_names |->
        LET real_coords == IF name \in DOMAIN manual
                           THEN manual[name]
                           ELSE enhanced_landmarks(image_bytes)[name]
            canvas_coords == scale_to_canvas(real_coords,
                                             real_size_of(image_bytes),
                                             canvas_size_of(image_bytes))
        IN  [type |-> "circle",
             name |-> name,
             left |-> canvas_coords.x - base_radius(name),
             top |-> canvas_coords.y - base_radius(name),
             radius |-> base_radius(name),
             originalX |-> canvas_coords.x,
             originalY |-> canvas_coords.y]]

\* The user's drag of the circles: drag[name] is the displacement <<dx, dy>> of
\* that circle on the canvas.
dragged(objects, drag) ==
    [name \in DOMAIN objects |->
        [objects[name] EXCEPT !.left = @ + drag[name][1],
                              !.top = @ + drag[name][2]]]

\* math.sqrt(dx**2 + dy**2) >= movement_threshold, app.py:966-972, compared on
\* thousandths of a pixel (the squares of finer units overflow the model's
\* integers); a displacement of at least the threshold on one axis decides it.
MilliPx == Px \div 1000

\* A faulty variant of the movement test: any displacement counts as a move.
move_detected_any_motion(dx, dy, threshold) == dx # 0 \/ dy # 0

move_detected(dx, dy, threshold) ==
    IF Abs(dx) >= threshold \/ Abs(dy) >= threshold
    THEN TRUE
    ELSE LET mx == Abs(dx) \div MilliPx
             my == Abs(dy) \div MilliPx
             mt == threshold \div MilliPx
         IN  mx * mx + my * my >= mt * mt

\* The loop of update_enhanced_landmark_positions, app.py:947-986: the dict
\* updated_positions.
updated_positions(objects, key_points, real_size, canvas_size, manual, threshold) ==
    LET center(obj) == [x |-> obj.left + obj.radius, y |-> obj.top + obj.radius]
        real_coords(obj) == scale_to_real(center(obj), real_size, canvas_size)
        changed(obj) ==
            /\ obj.type = "circle"
            /\ obj.name \in key_points
            /\ move_detected(center(obj).x - obj.originalX,
                             center(obj).y - obj.originalY, threshold)
            /\ \/ obj.name \notin DOMAIN manual
               \/ Abs(manual[obj.name].x - real_coords(obj).x) > Px \div 2
               \/ Abs(manual[obj.name].y - real_coords(obj).y) > Px \div 2
    IN  [name \in {n \in DOMAIN objects : changed(objects[n])} |->
            real_coords(objects[name])]

\* A faulty variant of update_enhanced_landmark_positions: a snapshot is taken
\* before each point is applied.
update_snapshot_per_point(objects, key_points, real_size, canvas_size, manual, history, redo, threshold) ==
    LET updated == updated_positions(objects, key_points, real_size,
                                     canvas_size, manual, threshold)
        state_changed == DOMAIN updated # {}
        first == CHOOSE name \in DOMAIN updated : TRUE
        saved == save_adjustment_to_history(manual, history, redo)
        again == IF Cardinality(DOMAIN updated) > 1
                 THEN save_adjustment_to_history(
                          DictSet(manual, first, updated[first]),
                          saved.history, saved.redo)
                 ELSE saved
    IN  IF state_changed
        THEN [manual |-> [name \in DOMAIN manual \cup DOMAIN updated |->
                             IF name \in DOMAIN updated
                             THEN updated[name] ELSE manual[name]],
              history |-> again.history,
              redo |-> again.redo,
              ret |-> TRUE]
        ELSE [manual |-> manual, history |-> history, redo |-> redo,
              ret |-> FALSE]

\* update_enhanced_landmark_positions, app.py:924-1009: the session fields and
\* the return value (state_changed).
update_enhanced_landmark_positions(objects, key_points, real_size, canvas_size, manual, history, redo, threshold) ==
    LET updated == updated_positions(objects, key_points, real_size,
                                     canvas_size, manual, threshold)
        state_changed == DOMAIN updated # {}
        saved == save_adjustment_to_history(manual, history, redo)
    IN  IF state_changed
        THEN [manual |-> [name \in DOMAIN manual \cup DOMAIN updated |->
                             IF name \in DOMAIN updated
                             THEN updated[name] ELSE manual[name]],
              history |-> saved.history,
              redo |-> saved.redo,
              ret |-> TRUE]
        ELSE [manual |-> manual, history |-> history, redo |-> redo,
              ret |-> FALSE]

\* The apply button of create_precision_adjustment_controls, app.py:662-676.
apply_precision_adjustment(selected_point, x_offset, y_offset, manual, history, redo) ==
    LET current_coords == manual[selected_point]
        adjusted_coords == [x |-> current_coords.x + x_offset,
                            y |-> current_coords.y + y_offset]
    IN  [manual |-> DictSet(manual, selected_point, adjusted_coords),
         history |-> history,
         redo |-> redo]


(***************************************************************************)
(* app_final.py: the same editor with one history stack.  Its dicts are    *)
(* Python objects: final_heap maps each reference to the dict it names, so *)
(* that two references to one object are told from two equal dicts.        *)
(* Coordinates of this front end count hundredths of a pixel, the          *)
(* precision its conversions round to.                                     *)
(***************************************************************************)
\* COORDINATE_PRECISION and MOVEMENT_THRESHOLD of app_final.py:27-28 (the
\* stack's limit of 20, app_final.py:438, is MAX_HISTORY_SIZE).
FINAL_COORDINATE_PRECISION == 2

FinalPx == Pow10(FINAL_COORDINATE_PRECISION)

MOVEMENT_THRESHOLD == 5 * FinalPx

\* LANDMARK_GROUPS[name]['size'], app_final.py:30-42.
final_size(name) == IF name = "nose_tip" THEN 12 * FinalPx ELSE 8 * FinalPx

\* The order in which LANDMARK_GROUPS.items() yields the key points.
final_key_points == <<"nose_tip", "nose_bridge">>

\* detect_face_landmarks, app_final.py:88-113, whose FaceMesh is built with
\* max_num_faces=1: the first face's landmark set when there is any face.
final_detect_face_landmarks(image_bytes) ==
    IF faces_found(image_bytes) > 0 THEN image_bytes ELSE None

\* calculate_landmark_center, app_final.py:116-139: the centre of the group,
\* rounded to the front end's precision.
calculate_landmark_center(landmarks, name) ==
    [x |-> enhanced_landmarks(landmarks)[name].x \div (Px \div FinalPx),
     y |-> enhanced_landmarks(landmarks)[name].y \div (Px \div FinalPx)]

\* A faulty variant of app_final.py's validate_anatomical_constraints: a
\* missing point is reported.
validate_flagging_missing(adjustments) ==
    IF ~all_required_points(adjustments)
    THEN [is_valid |-> FALSE, warnings |-> <<"missing_points">>,
          metrics |-> EmptyDict]
    ELSE validate_points(adjustments["nose_tip"], adjustments["nose_bridge"],
                         adjustments["left_nostril"],
                         adjustments["right_nostril"], FinalPx \div 100)

\* validate_anatomical_constraints, app_final.py:196-256.
final_validate_anatomical_constraints(adjustments) ==
    IF ~all_required_points(adjustments)
    THEN [is_valid |-> TRUE, warnings |-> <<>>, metrics |-> EmptyDict]
    ELSE validate_points(adjustments["nose_tip"], adjustments["nose_bridge"],
                         adjustments["left_nostril"],
                         adjustments["right_nostril"], FinalPx \div 100)

\* calculate_canvas_size, app_final.py:270-282.
calculate_canvas_size(shape) ==
    LET h == shape[1]
        w == shape[2]
    IN  IF w > h
        THEN <<CANVAS_WIDTH, Min((h * CANVAS_WIDTH) \div w, CANVAS_HEIGHT)>>
        ELSE LET canvas_h == Min(CANVAS_HEIGHT, (h * CANVAS_WIDTH) \div w)
             IN  <<(w * canvas_h) \div h, canvas_h>>

\* scale_coordinates, app_final.py:259-267: to_size[0] / from_size[0] and
\* to_size[1] / from_size[1] raise when the divisor is 0.
scale_coordinates(coords, from_size, to_size) ==
    IF from_size[1] = 0 \/ from_size[2] = 0
    THEN ZeroDivisionError
    ELSE [x |-> ScaleRound(coords.x, to_size[1], from_size[1]),
          y |-> ScaleRound(coords.y, to_size[2], from_size[2])]

\* create_canvas_objects, app_final.py:285-328: the list of circles.
create_canvas_objects(landmarks, shape, canvas_size, adjustments) ==
    [i \in 1..Len(final_key_points) |->
        LET name == final_key_points[i]
            center == IF name \in DOMAIN adjustments
                      THEN adjustments[name]
                      ELSE calculate_landmark_center(landmarks, name)
            canvas_coords == scale_coordinates(center, <<shape[2], shape[1]>>,
                                               canvas_size)
        IN  [type |-> "circle",
             name |-> name,
             left |-> canvas_coords.x - final_size(name),
             top |-> canvas_coords.y - final_size(name),
             radius |-> final_size(name),
             originalX |-> canvas_coords.x,
             originalY |-> canvas_coords.y]]

\* A reference no object of the heap has yet: what creating a dict returns.
NewRef(heap) ==
    CHOOSE ref \in 0..Cardinality(DOMAIN heap) :
        /\ ref \notin DOMAIN heap
        /\ \A lower \in 0..ref : lower = ref \/ lower \in DOMAIN heap

\* The heap with one more object.
Allocate(heap, value) ==
    [ref \in DOMAIN heap \cup {NewRef(heap)} |->
        IF ref \in DOMAIN heap THEN heap[ref] ELSE value]

\* The objects still referenced by the session (Python frees the others).
Collect(heap, manual, history) ==
    [ref \in {manual} \cup {history[i] : i \in 1..Len(history)} |-> heap[ref]]

\* save_to_history, app_final.py:428-439: a deep copy of the overrides is
\* pushed unless it equals the top entry.
save_to_history(heap, manual, history) ==
    IF history = <<>> \/ heap[Last(history)] # heap[manual]
    THEN LET pushed == Append(history, NewRef(heap))
         IN  [heap |-> Allocate(heap, heap[manual]),
              manual |-> manual,
              history |-> IF Len(pushed) > MAX_HISTORY_SIZE
                          THEN Tail1(pushed) ELSE pushed]
    ELSE [heap |-> heap, manual |-> manual, history |-> history]

\* One turn of the loop of update_adjustments_from_canvas, app_final.py:343-372,
\* on the session fields s = [heap, manual, history, updated].
update_from_object(s, obj, real_size, canvas_size, threshold) ==
    LET current == [x |-> obj.left + obj.radius, y |-> obj.top + obj.radius]
        real_coords == scale_coordinates(current, canvas_size, real_size)
        saved == save_to_history(s.heap, s.manual, s.history)
    IN  IF /\ obj.type = "circle"
           /\ obj.name # None
           /\ move_detected((current.x - obj.originalX) * (Px \div FinalPx),
                            (current.y - obj.originalY) * (Px \div FinalPx),
                            threshold * (Px \div FinalPx))
           /\ \/ obj.name \notin DOMAIN s.heap[s.manual]
              \/ s.heap[s.manual][obj.name] # real_coords
        THEN [heap |-> [saved.heap EXCEPT ![s.manual] =
                            DictSet(@, obj.name, real_coords)],
              manual |-> s.manual,
              history |-> saved.history,
              updated |-> TRUE]
        ELSE s

RECURSIVE update_loop(_, _, _, _, _, _)
update_loop(s, objects, i, real_size, canvas_size, threshold) ==
    IF i > Len(objects)
    THEN s
    ELSE update_loop(update_from_object(s, objects[i], real_size, canvas_size,
                                        threshold),
                     objects, i + 1, real_size, canvas_size, threshold)

\* update_adjustments_from_canvas, app_final.py:331-374: the session fields and
\* the return value (updated).
update_adjustments_from_canvas(objects, real_size, canvas_size, heap, manual, history, threshold) ==
    update_loop([heap |-> heap, manual |-> manual, history |-> history,
                 updated |-> FALSE],
                objects, 1, real_size, canvas_size, threshold)

\* The undo button of create_sidebar_controls, app_final.py:479-486: the top
\* entry is dropped and the overrides become the entry below it, the very
\* object the stack keeps.
final_undo(heap, manual, history) ==
    LET popped == Front(history)
    IN  IF popped # <<>>
        THEN [heap |-> heap, manual |-> Last(popped), history |-> popped]
        ELSE [heap |-> Allocate(heap, EmptyDict), manual |-> NewRef(heap),
              history |-> popped]

\* The reset button of create_sidebar_controls, app_final.py:472-476.
final_reset(heap, manual, history) ==
    [heap |-> Allocate(heap, EmptyDict), manual |-> NewRef(heap),
     history |-> <<>>]

(***************************************************************************)
(* The inputs of the handlers.                                             *)
(***************************************************************************)
\* Displacements of one circle on the canvas: none, below the default
\* threshold, and past it in either direction.
Drags == {<<0, 0>>, <<3 * Px, 0>>, <<6 * Px, 0>>}

\* (x_offset, y_offset) of the precision sliders (steps of 0.1 in -20..20).
Offsets == {<<-12 * Px, 0>>, <<0, 0>>}

\* The inputs of a long editing session: the same circle dragged the same way.
LongDrags == {<<18 * Px, 0>>}
LongFileBytes == {"bytesA", "bytesB"}

\* Displacements of a circle on the canvas of app_final.py.
FinalDrags == {<<0, 0>>, <<3 * FinalPx, 0>>, <<6 * FinalPx, 0>>}

\* A circle that names no landmark group, moved past the threshold.
ForeignCircles ==
    {[type |-> "circle", name |-> "chin", left |-> 306 * FinalPx,
      top |-> 500 * FinalPx, radius |-> 10 * FinalPx,
      originalX |-> 310 * FinalPx, originalY |-> 510 * FinalPx]}

\* The inputs of the analyzer functions.  Normalized points: the two of the
\* aggregation example, (0.1, 0.1) and (0.3, 0.3), and two close to the first.
NormPoints ==
    {[x |-> 10, y |-> 10], [x |-> 30, y |-> 30], [x |-> 12, y |-> 10],
     [x |-> 10, y |-> 14]}

\* image_shape, (height, width).
Shapes == {<<100, 100>>, <<200, 100>>}

\* Landmark lists of up to MaxLandmarks points, and no landmarks at all.
DenseLandmarks ==
    {NoneObject} \cup
    UNION {{[length |-> n, landmark |-> f] : f \in [0..(n - 1) -> NormPoints]} :
               n \in 0..MaxLandmarks}

\* Index lists of up to MaxIndices indices; the index MaxLandmarks is below
\* the length of no list of DenseLandmarks.
IndexLists == UNION {[1..n -> 0..MaxLandmarks] : n \in 0..MaxIndices}

\* The indices AppConfig.LANDMARK_GROUPS names, and the place of each in its
\* group.
ConfigIndices ==
    UNION {{group_indices_of(name)[i] : i \in DOMAIN group_indices_of(name)} :
               name \in LANDMARK_GROUPS}

PlaceInGroup(idx) ==
    CHOOSE i \in 1..4 :
        \E name \in LANDMARK_GROUPS :
            i \in DOMAIN group_indices_of(name) /\ group_indices_of(name)[i] = idx

\* The detector's landmarks for a face: lists of several lengths (478 is the
\* length of the refined face mesh), in which the i-th index of every group
\* has the point c[i].
FaceLengths == {0, 2, 7, 135, 478}

Faces ==
    {[length |-> n,
      landmark |-> [idx \in {j \in ConfigIndices : j < n} |->
                       c[PlaceInGroup(idx)]]] :
         n \in FaceLengths, c \in [1..4 -> NormPoints]}

\* The calls of the analyzer: the function and its arguments.
CenterCalls ==
    {[fn |-> "calculate_group_center", landmarks |-> l, group_indices |-> g,
      shape |-> sh] :
         l \in DenseLandmarks, g \in IndexLists, sh \in Shapes}

EnhancedCalls ==
    {[fn |-> "get_enhanced_landmarks", landmarks |-> l, shape |-> sh] :
         l \in Faces, sh \in Shapes}

\* point_name: the six groups and a name that is none of them.
PointNames == LANDMARK_GROUPS \cup {"chin"}

AssessCalls ==
    {[fn |-> "assess_landmark_confidence", landmarks |-> l, point_name |-> n,
      shape |-> sh] : l \in Faces, n \in PointNames, sh \in Shapes}

\* Two point sets for the same group of the same image.
PairCalls ==
    {[fn |-> "assess_pair", landmarks |-> l, other |-> o,
      point_name |-> "left_nostril", shape |-> sh] :
         l \in {f \in Faces : f.length = 135},
         o \in {f \in Faces : f.length = 135}, sh \in Shapes}

\* Every confidence of the model's resolution, for the tier of a confidence.
TierCalls == {[fn |-> "tier", confidence |-> c] : c \in 0..ConfUnit}

\* The inputs of the validators, in whole pixels unless said otherwise.
\* nose_tip - nose_bridge: lengths 5, 9.99, 10, 100, 200 and 201 along the
\* vertical, the length 10 and the length 200 at 36.9 degrees, the two
\* directions next to 30 degrees on either side, and the bridge below the tip.
NoseOffsets ==
    {<<0, 500>>, <<0, 999>>, <<0, 1000>>, <<0, 10000>>, <<0, 20000>>,
     <<0, 20100>>, <<600, 800>>, <<12000, 16000>>, <<5700, 10000>>,
     <<5800, 10000>>, <<-5800, 10000>>, <<0, -500>>, <<0, 0>>}

\* left_nostril - right_nostril, in hundredths of a pixel: distances 0, 4.99,
\* 5, 50, 100 and 100.01.
NostrilOffsets ==
    {<<0, 0>>, <<-499, 0>>, <<-500, 0>>, <<-300, 400>>, <<-5000, 0>>,
     <<-10000, 0>>, <<-6000, 8000>>, <<-10001, 0>>}

\* The overrides of every group when nose_tip is at (300, 300) and
\* right_nostril at (350, 320), in hundredths of a pixel.
ValidatorPoints(nose, nostril) ==
    [name \in LANDMARK_GROUPS |->
        CASE name = "nose_tip" -> [x |-> 30000, y |-> 30000]
          [] name = "nose_bridge" ->
                 [x |-> 30000 - nose[1], y |-> 30000 - nose[2]]
          [] name = "right_nostril" -> [x |-> 35000, y |-> 32000]
          [] name = "left_nostril" ->
                 [x |-> 35000 + nostril[1], y |-> 32000 + nostril[2]]
          [] OTHER -> [x |-> 20000, y |-> 25000]]

\* The groups that have an override: any of the required points, with or
\* without one more group.
PresentGroups ==
    {present \in SUBSET LANDMARK_GROUPS : "right_eye_center" \notin present}

\* manual_adjustments of app_final.py (hundredths of a pixel) and of app.py
\* (unit 1 / Px).
ValidatorAdjustments(unit) ==
    {[name \in present |->
         [x |-> ValidatorPoints(nose, nostril)[name].x * unit,
          y |-> ValidatorPoints(nose, nostril)[name].y * unit]] :
        present \in PresentGroups, nose \in NoseOffsets,
        nostril \in NostrilOffsets}

ValidateCalls ==
    {[fn |-> "final_validate", adjustments |-> a] :
        a \in ValidatorAdjustments(FinalPx \div 100)}
    \cup {[fn |-> "validate_ui", adjustments |-> a] :
              a \in ValidatorAdjustments(CentiPx)}

\* The inputs of the coordinate transforms.  image_shape (height, width): three
\* ordinary images, a narrow one 200000 high, and the two smallest images
\* whose canvas has an empty side.
TransformShapes ==
    {<<480, 640>>, <<100, 100>>, <<1000, 800>>, <<200000, 300>>, <<1, 601>>,
     <<801, 1>>}

\* <<real_size, canvas_size>>, each (width, height): the sizes the script
\* passes for an image, and a real size with an empty side.
SizePairs ==
    {<<<<shape[2], shape[1]>>, calculate_canvas_dimensions(shape)>> :
        shape \in TransformShapes}
    \cup {<<<<0, 100>>, <<CANVAS_WIDTH, CANVAS_HEIGHT>>>>}

\* Points, in hundredths of a pixel.
TransformPoints ==
    {<<0, 0>>, <<50, 50>>, <<126, 126>>, <<10060, 5000>>, <<29999, 19999>>,
     <<33333, 7770>>}

\* The points of TransformPoints inside an area of the given size.
PointsInside(size) ==
    {pt \in TransformPoints : pt[1] <= 100 * size[1] /\ pt[2] <= 100 * size[2]}

\* The calls of the transforms: a point of the image for the transforms to
\* the canvas, a point of the canvas for scale_to_real.
TransformCalls ==
    UNION {{[fn |-> f, coords |-> [x |-> pt[1] * CentiPx, y |-> pt[2] * CentiPx],
             real_size |-> sz[1], canvas_size |-> sz[2]] :
               f \in {"verify_conversion_integrity", "scale_to_canvas"},
               pt \in PointsInside(sz[1])}
           \cup {[fn |-> "scale_to_real",
                  coords |-> [x |-> pt[1] * CentiPx, y |-> pt[2] * CentiPx],
                  real_size |-> sz[1], canvas_size |-> sz[2]] :
                    pt \in PointsInside(sz[2])}
           \cup {[fn |-> f, coords |-> [x |-> pt[1], y |-> pt[2]],
                  real_size |-> sz[1], canvas_size |-> sz[2]] :
                    f \in {"scale_coordinates", "final_round_trip"},
                    pt \in PointsInside(sz[1])} : sz \in SizePairs}

\* image_shape for the canvas size: heights and widths from 1 to 4000.
CanvasSides == {1, 2, 100, 480, 600, 601, 640, 800, 801, 1000, 4000}

CanvasCalls ==
    {[fn |-> f, shape |-> <<h, w>>] :
        f \in {"calculate_canvas_dimensions", "calculate_canvas_size"},
        h \in CanvasSides, w \in CanvasSides}

\* The coordinates the canvas draws, app.py:842-862: key_points holds the
\* groups of base_config that enhanced_landmarks has, and each is drawn at its
\* override when manual_adjustments has one.
key_point_coords(enhanced, manual) ==
    [point_name \in {name \in LANDMARK_GROUPS : name \in DOMAIN enhanced} |->
        IF point_name \in DOMAIN manual
        THEN manual[point_name]
        ELSE enhanced[point_name]]

\* The centres create_canvas_objects draws, app_final.py:291-298: a group
\* without a centre is skipped (`if not center: continue`) before the
\* overrides are looked at; centers holds the groups whose
\* calculate_landmark_center is not None.
object_centers(centers, adjustments) ==
    [name \in {group \in LANDMARK_GROUPS : group \in DOMAIN centers} |->
        IF adjustments # EmptyDict /\ name \in DOMAIN adjustments
        THEN adjustments[name]
        ELSE centers[name]]

\* The inputs of the merge: base positions and overrides for any groups.
BasePositions ==
    {[name \in present |-> [x |-> 400 * FinalPx, y |-> 300 * FinalPx]] :
        present \in SUBSET LANDMARK_GROUPS}

Overrides ==
    {[name \in present |-> [x |-> 412 * FinalPx, y |-> 306 * FinalPx]] :
        present \in SUBSET LANDMARK_GROUPS}

MergeCalls ==
    {[fn |-> f, base |-> b, overrides |-> o] :
        f \in {"key_point_coords", "object_centers"},
        b \in BasePositions, o \in Overrides}

(***************************************************************************)
(* The handlers of the script: one action per user interaction.            *)
(***************************************************************************)
\* What every operation records: its name, the state it started from and the
\* value the function returned (canvas_result keeps the circles the canvas
\* returned to the operation, None when it read none).  pre_edit_log lists the overrides as they were
\* before each committed canvas edit that has not been undone, since the last
\* clearing; cycles counts the committed canvas edits made in a row.
Record(op, value) ==
    /\ lastOp' = op
    /\ pre' = Snapshot
    /\ ret' = value
    /\ pre_edit_log' =
           CASE op = "canvas" /\ value = TRUE ->
                    Append(pre_edit_log, manual_adjustments)
             [] op \in {"undo", "undo_call"} /\ value = TRUE ->
                    Front(pre_edit_log)
             [] op = "reset" -> <<>>
             [] op = "upload" /\ value = TRUE -> <<>>
             [] OTHER -> pre_edit_log
    /\ cycles' =
           CASE op = "canvas" /\ value = TRUE -> cycles + 1
             [] op = "canvas" -> cycles
             [] OTHER -> 0

\* main, app.py:1182-1193: a file is uploaded, detect_image_change runs on its
\* bytes, then the detector.
UploadFile(image_bytes) ==
    LET res == detect_image_change(image_bytes, manual_adjustments,
                                   adjustment_history, adjustment_redo_stack,
                                   previous_image_hash)
    IN  /\ uploaded_file' = image_bytes
        /\ manual_adjustments' = res.manual
        /\ adjustment_history' = res.history
        /\ adjustment_redo_stack' = res.redo
        /\ current_image_hash' = res.current_hash
        /\ previous_image_hash' = res.previous_hash
        /\ Record("upload", res.ret)
        /\ canvas_result' = None
        /\ UNCHANGED movement_threshold

\* create_enhanced_interactive_canvas, app.py:912-916: the canvas of the
\* detected face returns its circles, dragged by drag.
CanvasResult(drag) ==
    /\ uploaded_file # None
    /\ detect_face_landmarks(uploaded_file).error_message = None
    /\ LET objects == dragged(initial_objects(uploaded_file, manual_adjustments),
                              drag)
           res == update_enhanced_landmark_positions(
                      objects, key_point_names, real_size_of(uploaded_file),
                      canvas_size_of(uploaded_file), manual_adjustments,
                      adjustment_history, adjustment_redo_stack,
                      movement_threshold)
       IN  /\ manual_adjustments' = res.manual
           /\ adjustment_history' = res.history
           /\ adjustment_redo_stack' = res.redo
           /\ canvas_result' = objects
           /\ Record("canvas", res.ret)
    /\ UNCHANGED <<movement_threshold, current_image_hash, previous_image_hash,
                   uploaded_file>>

\* create_precision_adjustment_controls, app.py:625-676: a point that has an
\* override is selected, the sliders are moved off zero and the apply button
\* is pressed.
PrecisionApply(selected_point, offset) ==
    /\ DOMAIN manual_adjustments # {}
    /\ selected_point \in DOMAIN manual_adjustments
    /\ offset[1] # 0 \/ offset[2] # 0
    /\ LET res == apply_precision_adjustment(
                      selected_point, offset[1], offset[2], manual_adjustments,
                      adjustment_history, adjustment_redo_stack)
       IN  /\ manual_adjustments' = res.manual
           /\ adjustment_history' = res.history
           /\ adjustment_redo_stack' = res.redo
           /\ Record("precision", None)
    /\ UNCHANGED <<movement_threshold, current_image_hash, previous_image_hash,
                   uploaded_file>>
    /\ canvas_result' = None

\* The reset button, app.py:724-729.
ResetButton ==
    /\ LET res == reset_all(manual_adjustments, adjustment_history,
                            adjustment_redo_stack)
       IN  /\ manual_adjustments' = res.manual
           /\ adjustment_history' = res.history
           /\ adjustment_redo_stack' = res.redo
           /\ Record("reset", None)
    /\ UNCHANGED <<movement_threshold, current_image_hash, previous_image_hash,
                   uploaded_file>>
    /\ canvas_result' = None

\* undo_last_adjustment is called.
UndoCall(op) ==
    /\ LET res == undo_last_adjustment(manual_adjustments, adjustment_history,
                                       adjustment_redo_stack)
       IN  /\ manual_adjustments' = res.manual
           /\ adjustment_history' = res.history
           /\ adjustment_redo_stack' = res.redo
           /\ Record(op, res.ret)
    /\ UNCHANGED <<movement_threshold, current_image_hash, previous_image_hash,
                   uploaded_file>>
    /\ canvas_result' = None

\* The undo button, app.py:731-736: disabled while the undo stack is empty.
UndoButton ==
    /\ Len(adjustment_history) > 0
    /\ UndoCall("undo")

\* save_adjustment_to_history is called on its own.
SaveCall ==
    /\ LET res == save_adjustment_to_history(manual_adjustments,
                                             adjustment_history,
                                             adjustment_redo_stack)
       IN  /\ adjustment_history' = res.history
           /\ adjustment_redo_stack' = res.redo
           /\ Record("save", None)
    /\ canvas_result' = None
    /\ UNCHANGED <<manual_adjustments, movement_threshold, current_image_hash,
                   previous_image_hash, uploaded_file>>

(***************************************************************************)
(* The handlers of app_final.py.                                           *)
(***************************************************************************)
\* What every operation of app_final.py records: its name, what it returned
\* and the session it started from.
FinalRecord(op, value) ==
    /\ lastOp' = op
    /\ ret' = value
    /\ final_pre' = [heap |-> final_heap, manual |-> final_manual_adjustments,
                     history |-> final_history, landmarks |-> final_landmarks,
                     uploaded |-> uploaded_file]
    /\ UNCHANGED <<app_vars, movement_threshold>>

\* main, app_final.py:539-560: a file is uploaded and the detector runs.
FinalUploadFile(image_bytes) ==
    LET landmarks == final_detect_face_landmarks(image_bytes)
    IN  /\ uploaded_file' = image_bytes
        /\ final_landmarks' = IF landmarks = None
                              THEN final_landmarks ELSE landmarks
        /\ canvas_result' = None
        /\ FinalRecord("final_upload", landmarks)
        /\ UNCHANGED <<final_heap, final_manual_adjustments, final_history>>

\* update_adjustments_from_canvas is called on the circles objects.
FinalUpdateCall(op, objects) ==
    /\ uploaded_file # None
    /\ LET shape == image_shape(uploaded_file)
           res == update_adjustments_from_canvas(
                      objects, <<shape[2], shape[1]>>,
                      calculate_canvas_size(shape), final_heap,
                      final_manual_adjustments, final_history,
                      MOVEMENT_THRESHOLD)
       IN  /\ final_heap' = Collect(res.heap, res.manual, res.history)
           /\ final_manual_adjustments' = res.manual
           /\ final_history' = res.history
           /\ canvas_result' = objects
           /\ FinalRecord(op, res.updated)
    /\ UNCHANGED <<uploaded_file, final_landmarks>>

\* The circles main draws for the detected face, app_final.py:583-604, as the
\* canvas returns them after the user's drag.
final_canvas_objects(drag) ==
    LET shape == image_shape(uploaded_file)
        objects == create_canvas_objects(
                       final_detect_face_landmarks(uploaded_file), shape,
                       calculate_canvas_size(shape),
                       final_heap[final_manual_adjustments])
    IN  [i \in DOMAIN objects |->
            [objects[i] EXCEPT !.left = @ + drag[objects[i].name][1],
                               !.top = @ + drag[objects[i].name][2]]]

\* main, app_final.py:583-610: the canvas of the detected face returns its
\* circles, dragged by drag.
FinalCanvasResult(drag) ==
    /\ uploaded_file # None
    /\ final_detect_face_landmarks(uploaded_file) # None
    /\ FinalUpdateCall("final_canvas", final_canvas_objects(drag))

\* update_adjustments_from_canvas is called on a result that holds, after the
\* circles of the key points, a circle the front end did not draw.
FinalForeignResult(drag, circle) ==
    /\ uploaded_file # None
    /\ final_detect_face_landmarks(uploaded_file) # None
    /\ FinalUpdateCall("final_update_call",
                       Append(final_canvas_objects(drag), circle))

\* The reset button, app_final.py:472-476.
FinalResetButton ==
    /\ LET res == final_reset(final_heap, final_manual_adjustments,
                              final_history)
       IN  /\ final_heap' = Collect(res.heap, res.manual, res.history)
           /\ final_manual_adjustments' = res.manual
           /\ final_history' = res.history
           /\ canvas_result' = None
           /\ FinalRecord("final_reset", None)
    /\ UNCHANGED <<uploaded_file, final_landmarks>>

\* The undo button, app_final.py:478-486: it acts when the history is not empty.
FinalUndoButton ==
    /\ final_history # <<>>
    /\ LET res == final_undo(final_heap, final_manual_adjustments,
                             final_history)
       IN  /\ final_heap' = Collect(res.heap, res.manual, res.history)
           /\ final_manual_adjustments' = res.manual
           /\ final_history' = res.history
           /\ canvas_result' = None
           /\ FinalRecord("final_undo", None)
    /\ UNCHANGED <<uploaded_file, final_landmarks>>

(***************************************************************************)
(* Specifications.                                                         *)
(***************************************************************************)
Step(bound) == steps < bound /\ steps' = steps + 1 /\ UNCHANGED args

\* A handler of app.py runs: the session of app_final.py is another process's.
AppStep(bound) == Step(bound) /\ UNCHANGED final_vars

\* A drag the canvas can report: every circle's centre stays on the canvas.
OnCanvas(drag) ==
    /\ uploaded_file # None
    /\ LET objects == dragged(initial_objects(uploaded_file, manual_adjustments),
                              drag)
           size == canvas_size_of(uploaded_file)
       IN  \A name \in DOMAIN objects :
               /\ objects[name].left + objects[name].radius >= 0
               /\ objects[name].left + objects[name].radius <= size[1] * Px
               /\ objects[name].top + objects[name].radius >= 0
               /\ objects[name].top + objects[name].radius <= size[2] * Px

\* Spec: the application, every handler with every input of the model.
Next ==
    \/ \E image_bytes \in FileBytes : AppStep(MaxSteps) /\ UploadFile(image_bytes)
    \/ \E drag \in [key_point_names -> Drags] :
           AppStep(MaxSteps) /\ OnCanvas(drag) /\ CanvasResult(drag)
    \/ \E name \in key_point_names, offset \in Offsets :
           AppStep(MaxSteps) /\ PrecisionApply(name, offset)
    \/ AppStep(MaxSteps) /\ ResetButton
    \/ AppStep(MaxSteps) /\ UndoButton

Spec == Init /\ [][Next]_vars

\* SpecApi: the handlers, and the two history functions called directly in any
\* state.
NextApi ==
    \/ \E image_bytes \in FileBytes : AppStep(MaxSteps) /\ UploadFile(image_bytes)
    \/ \E drag \in [key_point_names -> Drags] :
           AppStep(MaxSteps) /\ OnCanvas(drag) /\ CanvasResult(drag)
    \/ \E name \in key_point_names, offset \in Offsets :
           AppStep(MaxSteps) /\ PrecisionApply(name, offset)
    \/ AppStep(MaxSteps) /\ ResetButton
    \/ AppStep(MaxSteps) /\ UndoCall("undo_call")
    \/ AppStep(MaxSteps) /\ SaveCall

SpecApi == Init /\ [][NextApi]_vars

\* SpecLong: long sessions of the application, one circle dragged across the
\* canvas in equal steps, long enough to fill the stacks; the session ends
\* where the circle reaches the canvas edge.
NextLong ==
    \/ \E image_bytes \in LongFileBytes :
           UploadFile(image_bytes) /\ UNCHANGED <<steps, final_vars, args>>
    \/ \E drag \in LongDrags :
           LET drags == [name \in key_point_names |->
                            IF name = "nose_tip" THEN drag ELSE <<0, 0>>]
           IN  OnCanvas(drags) /\ CanvasResult(drags) /\ UNCHANGED <<steps, final_vars, args>>
    \/ ResetButton /\ UNCHANGED <<steps, final_vars, args>>
    \/ UndoButton /\ UNCHANGED <<steps, final_vars, args>>

SpecLong == Init /\ [][NextLong]_vars


\* SpecFinal: app_final.py, every handler with every input of the model.
NextFinal ==
    \/ \E image_bytes \in FileBytes :
           Step(MaxSteps) /\ FinalUploadFile(image_bytes)
    \/ \E drag \in [key_point_names -> FinalDrags] :
           Step(MaxSteps) /\ FinalCanvasResult(drag)
    \/ Step(MaxSteps) /\ FinalResetButton
    \/ Step(MaxSteps) /\ FinalUndoButton

SpecFinal == Init /\ [][NextFinal]_vars

\* SpecFinalApi: the handlers of app_final.py, and
\* update_adjustments_from_canvas called on any list of circles.
NextFinalApi ==
    \/ \E image_bytes \in FileBytes :
           Step(MaxSteps) /\ FinalUploadFile(image_bytes)
    \/ \E drag \in [key_point_names -> FinalDrags] :
           Step(MaxSteps) /\ FinalCanvasResult(drag)
    \/ \E circle \in ForeignCircles :
           Step(MaxSteps) /\ FinalForeignResult(
               [name \in key_point_names |-> <<0, 0>>], circle)
    \/ Step(MaxSteps) /\ FinalResetButton
    \/ Step(MaxSteps) /\ FinalUndoButton

SpecFinalApi == Init /\ [][NextFinalApi]_vars


\* SpecCenter: calculate_group_center and get_enhanced_landmarks applied to
\* every input of the model.
session_vars ==
    <<app_vars, final_vars, movement_threshold, uploaded_file, steps,
      canvas_result>>

InitCenter == NewSession /\ args \in CenterCalls \cup EnhancedCalls

CallCalculateGroupCenter ==
    /\ lastOp = "init"
    /\ args.fn = "calculate_group_center"
    /\ ret' = calculate_group_center(args.landmarks, args.group_indices,
                                     args.shape)
    /\ lastOp' = "calculate_group_center"
    /\ UNCHANGED <<args, session_vars>>

CallGetEnhancedLandmarks ==
    /\ lastOp = "init"
    /\ args.fn = "get_enhanced_landmarks"
    /\ ret' = get_enhanced_landmarks_internal(args.landmarks, args.shape)
    /\ lastOp' = "get_enhanced_landmarks"
    /\ UNCHANGED <<args, session_vars>>

NextCenter ==
    \/ CallCalculateGroupCenter
    \/ CallGetEnhancedLandmarks

SpecCenter == InitCenter /\ [][NextCenter]_vars


\* SpecAssess: assess_landmark_confidence applied to every input of the
\* model, and to every pair of point sets of one group.
InitAssess == NewSession /\ args \in AssessCalls \cup PairCalls

CallAssessLandmarkConfidence ==
    /\ lastOp = "init"
    /\ args.fn = "assess_landmark_confidence"
    /\ ret' = assess_landmark_confidence(args.landmarks, args.point_name,
                                         args.shape)
    /\ lastOp' = "assess_landmark_confidence"
    /\ UNCHANGED <<args, session_vars>>

CallAssessPair ==
    /\ lastOp = "init"
    /\ args.fn = "assess_pair"
    /\ ret' = <<assess_landmark_confidence(args.landmarks, args.point_name,
                                           args.shape),
                assess_landmark_confidence(args.other, args.point_name,
                                           args.shape)>>
    /\ lastOp' = "assess_pair"
    /\ UNCHANGED <<args, session_vars>>

NextAssess ==
    \/ CallAssessLandmarkConfidence
    \/ CallAssessPair

SpecAssess == InitAssess /\ [][NextAssess]_vars

\* SpecTier: the tier step of assess_landmark_confidence applied to every
\* confidence, and the whole function applied to every input of the model.
InitTier == NewSession /\ args \in TierCalls \cup AssessCalls

CallTier ==
    /\ lastOp = "init"
    /\ args.fn = "tier"
    /\ ret' = [confidence |-> args.confidence,
               status |-> tier_of(args.confidence).status,
               color |-> tier_of(args.confidence).color]
    /\ lastOp' = "tier"
    /\ UNCHANGED <<args, session_vars>>

NextTier ==
    \/ CallTier
    \/ CallAssessLandmarkConfidence

SpecTier == InitTier /\ [][NextTier]_vars

\* SpecValidate: the validators of both files applied to every input of the
\* model.
InitValidate == NewSession /\ args \in ValidateCalls

CallFinalValidate ==
    /\ lastOp = "init"
    /\ args.fn = "final_validate"
    /\ ret' = final_validate_anatomical_constraints(args.adjustments)
    /\ lastOp' = "final_validate"
    /\ UNCHANGED <<args, session_vars>>

CallValidateUi ==
    /\ lastOp = "init"
    /\ args.fn = "validate_ui"
    /\ ret' = validate_anatomical_constraints_ui(args.adjustments)
    /\ lastOp' = "validate_ui"
    /\ UNCHANGED <<args, session_vars>>

NextValidate ==
    \/ CallFinalValidate
    \/ CallValidateUi

SpecValidate == InitValidate /\ [][NextValidate]_vars

\* SpecTransform: the coordinate transforms and the canvas size of both files
\* applied to every input of the model.
InitTransform == NewSession /\ args \in TransformCalls \cup CanvasCalls

CallVerifyConversionIntegrity ==
    /\ lastOp = "init"
    /\ args.fn = "verify_conversion_integrity"
    /\ ret' = verify_conversion_integrity(args.coords, args.real_size,
                                          args.canvas_size)
    /\ lastOp' = "verify_conversion_integrity"
    /\ UNCHANGED <<args, session_vars>>

CallScaleToCanvas ==
    /\ lastOp = "init"
    /\ args.fn = "scale_to_canvas"
    /\ ret' = scale_to_canvas(args.coords, args.real_size, args.canvas_size)
    /\ lastOp' = "scale_to_canvas"
    /\ UNCHANGED <<args, session_vars>>

CallScaleToReal ==
    /\ lastOp = "init"
    /\ args.fn = "scale_to_real"
    /\ ret' = scale_to_real(args.coords, args.real_size, args.canvas_size)
    /\ lastOp' = "scale_to_real"
    /\ UNCHANGED <<args, session_vars>>

\* scale_coordinates as create_canvas_objects calls it, app_final.py:310.
CallScaleCoordinates ==
    /\ lastOp = "init"
    /\ args.fn = "scale_coordinates"
    /\ ret' = scale_coordinates(args.coords, args.real_size, args.canvas_size)
    /\ lastOp' = "scale_coordinates"
    /\ UNCHANGED <<args, session_vars>>

\* scale_coordinates as create_canvas_objects calls it, and then on its result
\* as update_adjustments_from_canvas calls it, app_final.py:310 and 361-365.
CallFinalRoundTrip ==
    /\ lastOp = "init"
    /\ args.fn = "final_round_trip"
    /\ LET canvas_coords == scale_coordinates(args.coords, args.real_size,
                                              args.canvas_size)
       IN  ret' = [canvas_coords |-> canvas_coords,
                   real_coords |->
                       IF canvas_coords = ZeroDivisionError
                       THEN ZeroDivisionError
                       ELSE scale_coordinates(canvas_coords, args.canvas_size,
                                              args.real_size)]
    /\ lastOp' = "final_round_trip"
    /\ UNCHANGED <<args, session_vars>>

CallCalculateCanvasDimensions ==
    /\ lastOp = "init"
    /\ args.fn = "calculate_canvas_dimensions"
    /\ ret' = calculate_canvas_dimensions(args.shape)
    /\ lastOp' = "calculate_canvas_dimensions"
    /\ UNCHANGED <<args, session_vars>>

CallCalculateCanvasSize ==
    /\ lastOp = "init"
    /\ args.fn = "calculate_canvas_size"
    /\ ret' = calculate_canvas_size(args.shape)
    /\ lastOp' = "calculate_canvas_size"
    /\ UNCHANGED <<args, session_vars>>

NextTransform ==
    \/ CallVerifyConversionIntegrity
    \/ CallScaleToCanvas
    \/ CallScaleToReal
    \/ CallScaleCoordinates
    \/ CallFinalRoundTrip
    \/ CallCalculateCanvasDimensions
    \/ CallCalculateCanvasSize

SpecTransform == InitTransform /\ [][NextTransform]_vars

\* SpecMerge: the merge of base positions and overrides that each canvas
\* draws, applied to every input of the model.
InitMerge == NewSession /\ args \in MergeCalls

CallKeyPointCoords ==
    /\ lastOp = "init"
    /\ args.fn = "key_point_coords"
    /\ ret' = key_point_coords(args.base, args.overrides)
    /\ lastOp' = "key_point_coords"
    /\ UNCHANGED <<args, session_vars>>

CallObjectCenters ==
    /\ lastOp = "init"
    /\ args.fn = "object_centers"
    /\ ret' = object_centers(args.base, args.overrides)
    /\ lastOp' = "object_centers"
    /\ UNCHANGED <<args, session_vars>>

NextMerge ==
    \/ CallKeyPointCoords
    \/ CallObjectCenters

SpecMerge == InitMerge /\ [][NextMerge]_vars


(***************************************************************************)
(* Properties.                                                             *)
(***************************************************************************)
IsSuffix(s, t) ==
    /\ Len(s) <= Len(t)
    /\ s = SubSeq(t, Len(t) - Len(s) + 1, Len(t))

LastN(t, n) == SubSeq(t, Len(t) - n + 1, Len(t))

\* The last operation was an edit of the overrides that changed them.
ForwardEdit ==
    /\ lastOp \in {"canvas", "precision"}
    /\ manual_adjustments # pre.manual

\* C1: the undo stack and the redo stack each hold at most MAX_HISTORY_SIZE
\* entries, whatever sequence of edits, undos, resets and image changes led to
\* the state.
C1_StacksBounded ==
    /\ Len(adjustment_history) <= MAX_HISTORY_SIZE
    /\ Len(adjustment_redo_stack) <= MAX_HISTORY_SIZE

\* An edit was committed on a full undo stack, which is still full.
C1_Witness ==
    /\ lastOp = "canvas"
    /\ ret = TRUE
    /\ Len(pre.history) = MAX_HISTORY_SIZE
    /\ Len(adjustment_history) = MAX_HISTORY_SIZE

\* C2: every forward edit that changes manual_adjustments, a committed canvas
\* drag or an applied precision adjustment, leaves the redo stack empty.
C2_ForwardEditClearsRedo ==
    ForwardEdit => adjustment_redo_stack = <<>>

\* C3: after an undo, a redo operation is available that makes the overrides
\* what they were before the undo, pops the redo stack and pushes the current
\* overrides back on the undo stack.
C3_UndoThenRedoRestores ==
    (lastOp = "undo") =>
        ENABLED (/\ Next
                 /\ lastOp' = "redo"
                 /\ manual_adjustments' = pre.manual
                 /\ adjustment_redo_stack' = Front(adjustment_redo_stack)
                 /\ adjustment_history' =
                        Append(adjustment_history, manual_adjustments))

\* C4: an undo on a non-empty undo stack makes the overrides the top entry of
\* the undo stack, removes exactly that entry and pushes the overrides it
\* replaced on the redo stack, keeping what the redo stack held; when the
\* operation before the undo was a committed canvas edit, the overrides are
\* again what they were immediately before that edit.
C4_UndoRestoresPreEdit ==
    (lastOp = "undo" /\ Len(pre.history) > 0) =>
        /\ manual_adjustments = Last(pre.history)
        /\ adjustment_history = Front(pre.history)
        /\ adjustment_redo_stack = Append(pre.redo, pre.manual)
        /\ (pre.op = "canvas" /\ pre.ret = TRUE) =>
               manual_adjustments = pre.before

\* A committed canvas edit made on existing overrides, with a non-empty redo
\* stack, was undone.
C4_Witness ==
    /\ lastOp = "undo"
    /\ pre.op = "canvas"
    /\ pre.ret = TRUE
    /\ pre.before # EmptyDict
    /\ Len(adjustment_redo_stack) = 1
    /\ Len(adjustment_history) > 0

\* C5: undo_last_adjustment called on an empty undo stack returns False and
\* leaves the overrides, the undo stack and the redo stack as they were.
C5_UndoOnEmptyStack ==
    (lastOp = "undo_call" /\ Len(pre.history) = 0) =>
        /\ ret = FALSE
        /\ manual_adjustments = pre.manual
        /\ adjustment_history = pre.history
        /\ adjustment_redo_stack = pre.redo

\* undo_last_adjustment was called with an empty undo stack and a non-empty
\* redo stack.
C5_Witness ==
    /\ lastOp = "undo_call"
    /\ Len(pre.history) = 0
    /\ Len(pre.redo) > 0

\* C6: a snapshot equal to the top of the undo stack is not pushed, so the
\* second of two snapshot calls in a row, and any call made while the top
\* equals the overrides, leaves the undo stack as it was.
C6_SnapshotDedup ==
    (/\ lastOp = "save"
     /\ \/ pre.op = "save"
        \/ (Len(pre.history) > 0 /\ Last(pre.history) = pre.manual)) =>
        adjustment_history = pre.history

\* Two snapshot calls in a row were made on non-empty overrides that differed
\* from the top of the undo stack: the first pushed, the second did not.
C6_Witness ==
    /\ lastOp = "save"
    /\ pre.op = "save"
    /\ manual_adjustments # EmptyDict
    /\ Len(adjustment_history) >= 2
    /\ Last(adjustment_history) = manual_adjustments
    /\ adjustment_history[Len(adjustment_history) - 1] # manual_adjustments

\* C7: through sessions of more than MAX_HISTORY_SIZE snapshot-then-apply
\* edits the undo stack never exceeds MAX_HISTORY_SIZE entries and is always
\* the most recent part of the pre-edit states; a push on a full stack evicts
\* the oldest entry; after more than MAX_HISTORY_SIZE edits in a row it holds
\* exactly the MAX_HISTORY_SIZE most recent pre-edit states.
C7_CapacityEviction ==
    /\ Len(adjustment_history) <= MAX_HISTORY_SIZE
    /\ IsSuffix(adjustment_history, pre_edit_log)
    /\ (lastOp = "canvas" /\ ret = TRUE /\ Len(pre.history) = MAX_HISTORY_SIZE) =>
           adjustment_history = Append(Tail1(pre.history), pre.manual)
    /\ (cycles > MAX_HISTORY_SIZE) =>
           /\ Len(adjustment_history) = MAX_HISTORY_SIZE
           /\ adjustment_history = LastN(pre_edit_log, MAX_HISTORY_SIZE)

\* More than MAX_HISTORY_SIZE edits were made in a row and the oldest pre-edit
\* state is no longer on the undo stack.
C7_Witness ==
    /\ cycles > MAX_HISTORY_SIZE
    /\ Len(pre_edit_log) > MAX_HISTORY_SIZE
    /\ \A i \in 1..Len(adjustment_history) :
           adjustment_history[i] # pre_edit_log[1]

\* C8: an upload whose hash differs from the previous non-null hash empties
\* the overrides, the undo stack and the redo stack together; any other upload
\* leaves all three as they were.
C8_ImageChangeClearsTogether ==
    (lastOp = "upload") =>
        IF pre.previous_hash # None /\ pre.previous_hash # md5(uploaded_file)
        THEN /\ manual_adjustments = EmptyDict
             /\ adjustment_history = <<>>
             /\ adjustment_redo_stack = <<>>
        ELSE /\ manual_adjustments = pre.manual
             /\ adjustment_history = pre.history
             /\ adjustment_redo_stack = pre.redo

\* A different image was uploaded while the overrides and both stacks were
\* non-empty.
C8_Witness ==
    /\ lastOp = "upload"
    /\ pre.previous_hash # None
    /\ pre.previous_hash # md5(uploaded_file)
    /\ pre.manual # EmptyDict
    /\ pre.history # <<>>
    /\ pre.redo # <<>>

\* C9: every edit of manual_adjustments, canvas drag commit and precision
\* adjustment alike, is preceded by a snapshot, so the top of the undo stack
\* is the state the edit started from.
C9_SnapshotBeforeEveryEdit ==
    ForwardEdit =>
        /\ Len(adjustment_history) > 0
        /\ Last(adjustment_history) = pre.manual

\* C10: the reset empties the overrides and both stacks together.
C10_ResetClearsAll ==
    (lastOp = "reset") =>
        /\ manual_adjustments = EmptyDict
        /\ adjustment_history = <<>>
        /\ adjustment_redo_stack = <<>>

\* The reset button was pressed while the overrides and both stacks were
\* non-empty.
C10_Witness ==
    /\ lastOp = "reset"
    /\ pre.manual # EmptyDict
    /\ pre.history # <<>>
    /\ pre.redo # <<>>

\* The overrides of app_final.py, as a dict.
final_overrides == final_heap[final_manual_adjustments]

\* The last operation read a canvas result with a circle that names no
\* configured landmark group.
NamesUnknownGroup ==
    /\ lastOp \in {"final_canvas", "final_update_call"}
    /\ \E i \in DOMAIN canvas_result :
           canvas_result[i].name \notin LANDMARK_GROUPS

\* C11: the keys of manual_adjustments are always among the six configured
\* group names, and an update that names an unrecognized group is rejected as
\* an error (UnknownGroup) and inserts no entry.
C11_UnknownGroupRejected ==
    /\ DOMAIN manual_adjustments \subseteq LANDMARK_GROUPS
    /\ DOMAIN final_overrides \subseteq LANDMARK_GROUPS
    /\ NamesUnknownGroup =>
           /\ ret = "UnknownGroup"
           /\ final_overrides = final_pre.heap[final_pre.manual]

\* The references a stack holds.
Entries(history) == {history[i] : i \in 1..Len(history)}

\* C12: the snapshots of the history are copies that are never the live
\* overrides: whatever snapshots, edits and undos came before, an edit of the
\* overrides leaves the contents of every entry the stack held before it, and
\* still holds, as they were.
C12_SnapshotsNeverAliased ==
    (lastOp = "final_canvas") =>
        \A ref \in Entries(final_pre.history) \cap Entries(final_history) :
            final_heap[ref] = final_pre.heap[ref]

\* C13: an upload for which the detector reports no face or several faces
\* leaves manual_adjustments, the undo stack and the redo stack as they were
\* before the failed load.
C13_FailedLoadMutatesNothing ==
    (/\ lastOp = "upload"
     /\ detect_face_landmarks(uploaded_file).error_message # None) =>
        /\ manual_adjustments = pre.manual
        /\ adjustment_history = pre.history
        /\ adjustment_redo_stack = pre.redo

\* C14: when the uploaded image shows more than one face, detection yields an
\* error outcome and no landmark set: the first face is not taken as the
\* result.
C14_MultipleFacesAreAnError ==
    /\ (lastOp = "upload" /\ faces_found(uploaded_file) > 1) =>
           /\ detect_face_landmarks(uploaded_file).landmarks = None
           /\ detect_face_landmarks(uploaded_file).error_message # None
    /\ (lastOp = "final_upload" /\ faces_found(uploaded_file) > 1) =>
           /\ ret = None
           /\ final_landmarks = final_pre.landmarks

\* The displacement of a returned circle's centre from its original position,
\* in thousandths of a pixel of a front end whose pixel is unit long.
Milli(v, unit) ==
    IF unit >= 1000 THEN v \div (unit \div 1000) ELSE v * (1000 \div unit)

Displacement(obj, unit) ==
    [dx |-> Milli(obj.left + obj.radius - obj.originalX, unit),
     dy |-> Milli(obj.top + obj.radius - obj.originalY, unit)]

BelowThreshold(obj, unit, threshold) ==
    LET d == Displacement(obj, unit)
        t == Milli(threshold, unit)
    IN  d.dx * d.dx + d.dy * d.dy < t * t

\* The override of the key point name is the same in the dicts before and after.
SameOverride(before, after, name) ==
    /\ name \in DOMAIN after <=> name \in DOMAIN before
    /\ name \in DOMAIN after => after[name] = before[name]

\* C15: a circle whose centre the canvas returns less than the movement
\* threshold away from its original position is ignored: its override is left
\* as it was, and a result in which every circle is below the threshold
\* changes neither manual_adjustments nor a history stack.
C15_SmallDragIgnored ==
    /\ (lastOp = "canvas") =>
           /\ \A name \in DOMAIN canvas_result :
                  BelowThreshold(canvas_result[name], Px, movement_threshold) =>
                      SameOverride(pre.manual, manual_adjustments, name)
           /\ (\A name \in DOMAIN canvas_result :
                   BelowThreshold(canvas_result[name], Px, movement_threshold)) =>
                  /\ ret = FALSE
                  /\ manual_adjustments = pre.manual
                  /\ adjustment_history = pre.history
                  /\ adjustment_redo_stack = pre.redo
    /\ (lastOp = "final_canvas") =>
           /\ \A i \in DOMAIN canvas_result :
                  BelowThreshold(canvas_result[i], FinalPx, MOVEMENT_THRESHOLD) =>
                      SameOverride(final_pre.heap[final_pre.manual],
                                   final_overrides, canvas_result[i].name)
           /\ (\A i \in DOMAIN canvas_result :
                   BelowThreshold(canvas_result[i], FinalPx, MOVEMENT_THRESHOLD)) =>
                  /\ ret = FALSE
                  /\ final_overrides = final_pre.heap[final_pre.manual]
                  /\ final_history = final_pre.history

\* A canvas result in which one circle, which has an override, was moved by
\* less than the threshold while another was moved past it and committed.
C15_Witness ==
    /\ lastOp = "canvas"
    /\ ret = TRUE
    /\ \E name \in DOMAIN canvas_result :
           /\ BelowThreshold(canvas_result[name], Px, movement_threshold)
           /\ Displacement(canvas_result[name], Px).dx # 0
           /\ name \in DOMAIN pre.manual

\* C16: the adjustment state starts empty on every image load: after the
\* upload of an image whose content differs from the one loaded before, the
\* overrides and the history made for the previous image are empty, so that
\* none of them is applied to the points of the new image.
C16_NewImageStartsEmpty ==
    (/\ lastOp = "final_upload"
     /\ final_pre.uploaded # None
     /\ md5(final_pre.uploaded) # md5(uploaded_file)) =>
        /\ final_overrides = EmptyDict
        /\ final_history = <<>>

\* The indices of a list that are below the number of raw landmarks.
InRange(landmarks, group_indices) ==
    {i \in DOMAIN group_indices : group_indices[i] < landmarks.length}

\* C17: calculate_group_center returns None, not the origin, when none of the
\* supplied indices is below the number of raw landmarks, and
\* get_enhanced_landmarks has a key for exactly the groups with an index in
\* range, each mapped to a resolved centre.
C17_AbsentGroupOmitted ==
    /\ (/\ lastOp = "calculate_group_center"
        /\ args.landmarks # NoneObject
        /\ InRange(args.landmarks, args.group_indices) = {}) =>
           ret = NoneObject
    /\ (lastOp = "get_enhanced_landmarks") =>
           /\ DOMAIN ret =
                  {name \in LANDMARK_GROUPS :
                      InRange(args.landmarks, group_indices_of(name)) # {}}
           /\ \A name \in DOMAIN ret :
                  /\ ret[name] # NoneObject
                  /\ DOMAIN ret[name] = {"x", "y"}

\* get_enhanced_landmarks was called on landmarks that reach some groups and
\* not others: the result has the first and lacks the second.
C17_Witness ==
    /\ lastOp = "get_enhanced_landmarks"
    /\ "left_nostril" \in DOMAIN ret
    /\ "left_eye_center" \notin DOMAIN ret
    /\ InRange(args.landmarks, group_indices_of("left_eye_center")) = {}

\* The pixel position (x_norm * w, y_norm * h) of the i-th supplied index when
\* it is in range, and the origin when it is not.
PixelOrZero(landmarks, group_indices, shape, i) ==
    IF i \in InRange(landmarks, group_indices)
    THEN [x |-> (landmarks.landmark[group_indices[i]].x * shape[2])
                    * (Px \div NormUnit),
          y |-> (landmarks.landmark[group_indices[i]].y * shape[1])
                    * (Px \div NormUnit)]
    ELSE [x |-> 0, y |-> 0]

\* value is total / count rounded to the coordinate unit.
IsMean(value, total, count) == 2 * Abs(count * value - total) <= count

\* C18: calculate_group_center returns, per axis, the arithmetic mean of the
\* pixel positions of exactly the supplied indices that are in range: the
\* indices out of range count neither in the sum nor in the number of points.
\* Normalized (0.1, 0.1) and (0.3, 0.3) on a 100 x 100 image give (20, 20).
C18_CenterIsMeanOfInRange ==
    (lastOp = "calculate_group_center" /\ ret # NoneObject) =>
        LET pixels == [i \in DOMAIN args.group_indices |->
                          PixelOrZero(args.landmarks, args.group_indices,
                                      args.shape, i)]
            count == Cardinality(InRange(args.landmarks, args.group_indices))
        IN  /\ count > 0
            /\ IsMean(ret.x, Sum([i \in DOMAIN pixels |-> pixels[i].x]), count)
            /\ IsMean(ret.y, Sum([i \in DOMAIN pixels |-> pixels[i].y]), count)
            /\ (/\ args.landmarks.length = 2
                /\ args.landmarks.landmark[0] = [x |-> 10, y |-> 10]
                /\ args.landmarks.landmark[1] = [x |-> 30, y |-> 30]
                /\ args.group_indices = <<0, 1>>
                /\ args.shape = <<100, 100>>) =>
                   ret = [x |-> 20 * Px, y |-> 20 * Px]

\* The points of the example were averaged although an index out of range
\* stood between their indices.
C18_Witness ==
    /\ lastOp = "calculate_group_center"
    /\ args.landmarks # NoneObject
    /\ args.landmarks.length = 2
    /\ args.landmarks.landmark[0] = [x |-> 10, y |-> 10]
    /\ args.landmarks.landmark[1] = [x |-> 30, y |-> 30]
    /\ args.group_indices = <<0, 2, 1>>
    /\ args.shape = <<100, 100>>
    /\ ret = [x |-> 20 * Px, y |-> 20 * Px]

\* The supplied indices of the group point_name that are in range.
ValidCount(landmarks, point_name) ==
    Cardinality(InRange(landmarks, group_indices_of(point_name)))

\* C19: assess_landmark_confidence returns confidence 0 with the tier unknown
\* when the group name is not configured, and confidence 0 with the tier
\* insufficient (the status insufficient_points) when fewer than two of the
\* group's indices are in range; a scored tier, high, medium or low, is
\* returned only when at least two points are valid.
C19_UnknownAndInsufficient ==
    (lastOp = "assess_landmark_confidence") =>
        /\ (args.point_name \notin LANDMARK_GROUPS) =>
               ret.confidence = 0 /\ ret.status = "unknown"
        /\ (/\ args.point_name \in LANDMARK_GROUPS
            /\ ValidCount(args.landmarks, args.point_name) < 2) =>
               ret.confidence = 0 /\ ret.status = "insufficient_points"
        /\ (ret.status \in {"high", "medium", "low"}) =>
               /\ args.point_name \in LANDMARK_GROUPS
               /\ ValidCount(args.landmarks, args.point_name) >= 2

\* A group with exactly one index in range was assessed.
C19_Witness ==
    /\ lastOp = "assess_landmark_confidence"
    /\ args.point_name = "nose_bridge"
    /\ ValidCount(args.landmarks, args.point_name) = 1
    /\ ret.status = "insufficient_points"

\* confidence is 1 / (1 + variance / 10) in confidence units, up to the
\* rounding of the last unit.
IsConfidenceOf(confidence, variance) ==
    LET num == ConfUnit * 10 * VarUnit
        den == 10 * VarUnit + variance
    IN  /\ confidence > 0
        /\ Abs(den - num \div confidence) <= den \div (2 * confidence) + 1

\* C20: the confidence of an assessment lies in [0, 1], is
\* clamp(1 / (1 + variance / 10), 0, 1) when a variance was computed, and does
\* not increase with the variance: of two point sets, the one with the
\* smaller variance has a confidence at least that of the other.
C20_ConfidenceMonotone ==
    /\ (lastOp = "assess_landmark_confidence") =>
           /\ ret.confidence >= 0
           /\ ret.confidence <= ConfUnit
           /\ ("variance" \in DOMAIN ret) =>
                  IsConfidenceOf(ret.confidence, ret.variance)
    /\ (lastOp = "assess_pair") =>
           /\ \A i \in 1..2 :
                  /\ ret[i].confidence >= 0
                  /\ ret[i].confidence <= ConfUnit
                  /\ IsConfidenceOf(ret[i].confidence, ret[i].variance)
           /\ (ret[1].variance < ret[2].variance) =>
                  ret[1].confidence >= ret[2].confidence

\* Two point sets of different, non-zero variance were assessed, and the one
\* with the smaller variance has the greater confidence.
C20_Witness ==
    /\ lastOp = "assess_pair"
    /\ 0 < ret[1].variance
    /\ ret[1].variance < ret[2].variance
    /\ ret[1].confidence > ret[2].confidence
    /\ ret[2].confidence > 0

RequiredPointMissing ==
    \E name \in {"nose_tip", "nose_bridge", "left_nostril", "right_nostril"} :
        name \notin DOMAIN args.adjustments

\* C22: the validator returns is_valid true, no warning and no metric whenever
\* one of nose_tip, nose_bridge, left_nostril and right_nostril has no
\* override, the empty dict included, whatever the other overrides are;
\* app.py's validate_anatomical_constraints_ui then returns before validating
\* and reports nothing.
C22_MissingPointIsValid ==
    /\ (lastOp = "final_validate" /\ RequiredPointMissing) =>
           /\ ret.is_valid
           /\ ret.warnings = <<>>
           /\ DOMAIN ret.metrics = {}
    /\ (lastOp = "validate_ui" /\ RequiredPointMissing) => ret = NoneObject

\* Three required points have overrides that break the length rule, the
\* fourth has none, and the input was found valid.
C22_Witness ==
    /\ lastOp = "final_validate"
    /\ DOMAIN args.adjustments = {"nose_tip", "nose_bridge", "right_nostril"}
    /\ args.adjustments["nose_bridge"].y - args.adjustments["nose_tip"].y
           = 5 * FinalPx
    /\ ret.is_valid
    /\ ret.warnings = <<>>

\* The difference of two overrides of the validator's input along one axis,
\* in hundredths of a pixel.
Difference(from, to, axis) ==
    LET unit == IF lastOp = "final_validate" THEN FinalPx \div 100 ELSE CentiPx
    IN  (args.adjustments[to][axis] - args.adjustments[from][axis]) \div unit

SquaredLength(from, to) ==
    Difference(from, to, "x") * Difference(from, to, "x")
        + Difference(from, to, "y") * Difference(from, to, "y")

\* The rule a warning stands for is violated by the validator's input.
Violated(warning) ==
    LET dx == Difference("nose_bridge", "nose_tip", "x")
        dy == Difference("nose_bridge", "nose_tip", "y")
    IN  CASE warning = "nose_too_short" ->
                 SquaredLength("nose_bridge", "nose_tip") < 1000 * 1000
          [] warning = "nose_too_long" ->
                 SquaredLength("nose_bridge", "nose_tip") > 20000 * 20000
          [] warning = "nostrils_too_close" ->
                 SquaredLength("left_nostril", "right_nostril") < 500 * 500
          [] warning = "nostrils_too_far" ->
                 SquaredLength("left_nostril", "right_nostril") > 10000 * 10000
          [] warning = "nose_angle_unnatural" ->
                 dy < 0 \/ 3 * dx * dx > dy * dy

\* C23: with the four required points present the validator's warnings are
\* exactly those of the violated rules, in the order of the rules (length,
\* nostril distance, angle), each rule with strict inequalities so that a
\* boundary value is not flagged, and is_valid is true exactly when there is
\* no warning.
C23_WarningsAreViolatedRules ==
    (lastOp \in {"final_validate", "validate_ui"} /\ ~RequiredPointMissing) =>
        /\ ret.warnings =
               SelectSeq(<<"nose_too_short", "nose_too_long",
                           "nostrils_too_close", "nostrils_too_far",
                           "nose_angle_unnatural">>, Violated)
        /\ ret.is_valid <=> (ret.warnings = <<>>)

\* The nose has length 5 with the bridge below the tip and the nostrils are
\* 100 apart: the length and the angle are flagged, the distance is not.
C23_Witness ==
    /\ lastOp = "final_validate"
    /\ ~RequiredPointMissing
    /\ SquaredLength("nose_bridge", "nose_tip") = 500 * 500
    /\ SquaredLength("left_nostril", "right_nostril") = 10000 * 10000
    /\ ret.warnings = <<"nose_too_short", "nose_angle_unnatural">>
    /\ ~ret.is_valid

\* Both sizes of a transform call have positive sides.
PositiveSizes ==
    \A i \in 1..2 : args.real_size[i] > 0 /\ args.canvas_size[i] > 0

\* C24: for every point and all positive model and display sizes, the point
\* transformed to the display and back is within 1.0 of itself on each axis,
\* with the rounding to 6 decimals (app.py) or 2 decimals (app_final.py) of
\* each direction.
C24_RoundTripWithinOne ==
    /\ (lastOp = "verify_conversion_integrity" /\ PositiveSizes) => ret = TRUE
    /\ (lastOp = "final_round_trip" /\ PositiveSizes) =>
           /\ Abs(ret.real_coords.x - args.coords.x) <= FinalPx
           /\ Abs(ret.real_coords.y - args.coords.y) <= FinalPx

\* C25: a transform called with a model size or a display size that has a
\* zero side ends in an error and returns no coordinate.
C25_ZeroDimensionIsAnError ==
    (/\ lastOp \in {"scale_to_canvas", "scale_to_real", "scale_coordinates"}
     /\ ~PositiveSizes) =>
        ret = ZeroDivisionError

\* C29: for every image with height >= 1 and width >= 1 the canvas size is at
\* least 1 and at most 600 wide, and at least 1 and at most 800 high.
C29_CanvasSidesPositive ==
    (/\ lastOp \in {"calculate_canvas_dimensions", "calculate_canvas_size"}
     /\ args.shape[1] >= 1
     /\ args.shape[2] >= 1) =>
        /\ 1 <= ret[1] /\ ret[1] <= CANVAS_WIDTH
        /\ 1 <= ret[2] /\ ret[2] <= CANVAS_HEIGHT

\* C26: the coordinates handed to rendering are the union of the base
\* positions and the overrides: a group with an override appears with the
\* override, also when it has no base position, and a group without an
\* override appears with its base position.
C26_MergeIsUnion ==
    (lastOp \in {"key_point_coords", "object_centers"}) =>
        /\ DOMAIN ret = DOMAIN args.base \cup DOMAIN args.overrides
        /\ \A name \in DOMAIN ret :
               ret[name] = IF name \in DOMAIN args.overrides
                           THEN args.overrides[name]
                           ELSE args.base[name]

\* C27: in app_final.py an undo pressed after two or more edits, each
\* preceded by its snapshot, returns the overrides to what they were
\* immediately before the most recent edit, which is what the top snapshot of
\* the history recorded.
C27_UndoStepsBackOneEdit ==
    (lastOp = "final_undo" /\ Len(final_pre.history) >= 2) =>
        final_overrides = final_pre.heap[Last(final_pre.history)]

\* The points whose override differs between two states of the overrides.
ChangedPoints(before, after) ==
    {name \in DOMAIN after :
        name \notin DOMAIN before \/ after[name] # before[name]}

\* C28: a canvas result of app.py that moves several points past the threshold
\* takes one snapshot, of the overrides as they were before any of them was
\* applied: the undo stack grows by at most one entry, its top is that
\* snapshot, and a single undo reverts every point of the batch.
C28_BatchTakesOneSnapshot ==
    /\ (lastOp = "canvas" /\ ret = TRUE) =>
           /\ Len(adjustment_history) <= Len(pre.history) + 1
           /\ adjustment_history # <<>>
           /\ Last(adjustment_history) = pre.manual
    /\ (lastOp = "undo" /\ pre.op = "canvas" /\ pre.ret = TRUE) =>
           /\ manual_adjustments = pre.before
           /\ ChangedPoints(pre.before, manual_adjustments) = {}

\* A canvas result that moved both key points was undone by one undo.
C28_Witness ==
    /\ lastOp = "undo"
    /\ pre.op = "canvas"
    /\ pre.ret = TRUE
    /\ ChangedPoints(pre.before, pre.manual) = {"nose_tip", "nose_bridge"}
    /\ manual_adjustments = pre.before

\* C30: a group of exactly two valid points (nose_tip and nose_bridge as
\* configured) is assessed with variance 0, confidence 1.0 and the tier high,
\* however far apart the two points are: both are as far from their midpoint.
C30_TwoPointsAlwaysHigh ==
    (/\ lastOp = "assess_landmark_confidence"
     /\ args.point_name \in LANDMARK_GROUPS
     /\ Len(group_indices_of(args.point_name)) = 2
     /\ ValidCount(args.landmarks, args.point_name) = 2) =>
        /\ ret.variance = 0
        /\ ret.confidence = ConfUnit
        /\ ret.status = "high"
        /\ ret.point_count = 2

\* nose_tip was assessed on an image 100 wide and 200 high with its two
\* points at (0.1, 0.1) and (0.3, 0.3), 20 and 40 pixels apart on the axes.
C30_Witness ==
    /\ lastOp = "assess_landmark_confidence"
    /\ args.point_name = "nose_tip"
    /\ args.shape = <<200, 100>>
    /\ args.landmarks.length >= 3
    /\ args.landmarks.landmark[1] = [x |-> 10, y |-> 10]
    /\ args.landmarks.landmark[2] = [x |-> 30, y |-> 30]
    /\ ret.variance = 0
    /\ ret.confidence = ConfUnit
    /\ ret.status = "high"

====
